---- MODULE Spec2Model ----
(***************************************************************************)
(* Model of the three engines of the MEP platform backend:                 *)
(*   services/delta.service.ts        compareTakeoffs                      *)
(*   services/spec.service.ts         correlateEquipmentToSpecs,           *)
(*                                    findSpecGaps                         *)
(*   services/equivalency.service.ts  EquivalencyService                   *)
(*                                                                         *)
(* JavaScript strings are TLA+ strings, handled character by character     *)
(* with Len, SubSeq, Head, Tail and \o.  JavaScript numbers that are       *)
(* accumulated (scores, confidences) are IEEE-754 doubles, kept exactly as *)
(* sign and two limbs in units of 2^-57 and rounded to 53 bits, ties to    *)
(* even, after every operation.  Parsed magnitudes and catalog values are  *)
(* decimals kept in hundredths.                                            *)
(***************************************************************************)
EXTENDS Integers, Sequences, FiniteSets, TLC

VARIABLES
    pc,                \* "idle", "calc" (inside _calculateMatch) or "returned"
    op,                \* the operation called
    args,              \* its arguments
    loc,               \* the local variables of a call in progress
    ret,               \* its result
    myManufacturers,   \* EquivalencyService.myManufacturers
    catalog,           \* the array MANUFACTURER_DATABASE of the equivalency module
    users,             \* the Map users of the auth routes: key -> stored user
    loginAttempts,     \* the Map loginAttempts of the auth service
    now,               \* Date.now(), in minutes
    projects,          \* the Map projects of the project routes, in insertion order
    uploads,           \* the files written to UPLOAD_DIR
    hist               \* history of the auth requests, read by no handler

\* what the HTTP routes keep between requests
server == <<users, loginAttempts, now, projects, uploads, hist>>

vars == <<pc, op, args, loc, ret, myManufacturers, catalog, server>>

Null == [null |-> TRUE]

(***************************************************************************)
(* Bounds of the model                                                     *)
(***************************************************************************)
MaxEquip == 2

MaxSections == 2

MaxSizes == 2

MaxSpecs == 2

\* the longest old list whose summary is computed from its counts alone
MaxRecords == 40

(***************************************************************************)
(* Strings                                                                 *)
(***************************************************************************)
LowerLetters == "abcdefghijklmnopqrstuvwxyz"

UpperLetters == "ABCDEFGHIJKLMNOPQRSTUVWXYZ"

DigitChars == "0123456789"

CharAt(s, i) == SubSeq(s, i, i)

Contains(s, c) == \E i \in 1..Len(s) : CharAt(s, i) = c

IndexIn(s, c) == CHOOSE i \in 1..Len(s) : CharAt(s, i) = c

UpperOf == [c \in {CharAt(LowerLetters, i) : i \in 1..26} |-> CharAt(UpperLetters, IndexIn(LowerLetters, c))]

LowerOf == [c \in {CharAt(UpperLetters, i) : i \in 1..26} |-> CharAt(LowerLetters, IndexIn(UpperLetters, c))]

UpperChar(c) == IF c \in DOMAIN UpperOf THEN UpperOf[c] ELSE c

LowerChar(c) == IF c \in DOMAIN LowerOf THEN LowerOf[c] ELSE c

RECURSIVE toUpperCase(_)
toUpperCase(s) == IF s = "" THEN "" ELSE UpperChar(Head(s)) \o toUpperCase(Tail(s))

RECURSIVE toLowerCase(_)
toLowerCase(s) == IF s = "" THEN "" ELSE LowerChar(Head(s)) \o toLowerCase(Tail(s))

\* String.prototype.includes
includes(s, sub) == \E i \in 0..(Len(s) - Len(sub)) : SubSeq(s, i + 1, i + Len(sub)) = sub

DigitOf == [c \in {CharAt(DigitChars, i) : i \in 1..10} |-> IndexIn(DigitChars, c) - 1]

IsDigit(c) == c \in DOMAIN DigitOf

DigitVal(c) == DigitOf[c]

\* Array.prototype.filter
RECURSIVE SelectSeqIdx(_, _, _)
SelectSeqIdx(s, Keep(_), i) ==
    IF i > Len(s) THEN <<>>
    ELSE (IF Keep(s[i]) THEN <<s[i]>> ELSE <<>>) \o SelectSeqIdx(s, Keep, i + 1)

Range(s) == {s[i] : i \in 1..Len(s)}

\* all sequences over S of length at most n
SeqsUpTo(S, n) == UNION {[1..k -> S] : k \in 0..n}

(***************************************************************************)
(* IEEE-754 doubles in [-4, 4] that are multiples of 2^-57:                *)
(* the value of [s, h, l] is s * (h * 2^29 + l) * 2^-57.                   *)
(***************************************************************************)
Limb == 2^29

Dbl(s, h, l) == [s |-> s, h |-> h, l |-> l]

DZero == Dbl(1, 0, 0)

MagLess(a, b) == a.h < b.h \/ (a.h = b.h /\ a.l < b.l)

MagAdd(a, b) == LET l == a.l + b.l IN [h |-> a.h + b.h + (l \div Limb), l |-> l % Limb]

\* a - b for magnitudes with b <= a
MagSub(a, b) ==
    IF a.l >= b.l THEN [h |-> a.h - b.h, l |-> a.l - b.l]
    ELSE [h |-> a.h - b.h - 1, l |-> a.l + Limb - b.l]

\* number of low bits a magnitude has beyond the 53 bits of a significand
ExtraBits(h) ==
    IF h < 2^24 THEN 0 ELSE IF h < 2^25 THEN 1 ELSE IF h < 2^26 THEN 2
    ELSE IF h < 2^27 THEN 3 ELSE IF h < 2^28 THEN 4 ELSE IF h < 2^29 THEN 5
    ELSE IF h < 2^30 THEN 6 ELSE 7

\* round to nearest, ties to even
RoundMag(m) ==
    LET q == 2^ExtraBits(m.h)
        r == m.l % q
        up == 2 * r > q \/ (2 * r = q /\ ((m.l \div q) % 2) = 1)
        l2 == IF up THEN m.l - r + q ELSE m.l - r
    IN [h |-> m.h + (l2 \div Limb), l |-> l2 % Limb]

Signed(s, m) == IF m.h = 0 /\ m.l = 0 THEN DZero ELSE Dbl(s, m.h, m.l)

FNeg(a) == Signed(0 - a.s, a)

ExactAdd(a, b) ==
    IF a.s = b.s THEN Signed(a.s, MagAdd(a, b))
    ELSE IF MagLess(a, b) THEN Signed(b.s, MagSub(b, a))
    ELSE Signed(a.s, MagSub(a, b))

\* a + b and a - b of two doubles
FAdd(a, b) == LET e == ExactAdd(a, b) IN Signed(e.s, RoundMag(e))

FSub(a, b) == FAdd(a, FNeg(b))

\* a < b, a > b of two doubles
FLess(a, b) == LET e == ExactAdd(a, FNeg(b)) IN e.s = -1

FGreater(a, b) == FLess(b, a)

RECURSIVE MagTimes(_, _)
MagTimes(k, m) ==
    IF k = 0 THEN [h |-> 0, l |-> 0]
    ELSE LET half == MagTimes(k \div 2, m)
             even == MagAdd(half, half)
         IN IF k % 2 = 1 THEN MagAdd(even, m) ELSE even

\* k * a of a small non-negative integer and a double
FMulInt(k, a) == Signed(a.s, RoundMag(MagTimes(k, a)))

\* |a - b| of two doubles
FAbsDiff(a, b) == LET d == FSub(a, b) IN Dbl(1, d.h, d.l)

\* the doubles of the decimal literals used below
D005 == Dbl(1, 13421772, 429496730)
D010 == Dbl(1, 26843545, 322122548)
D015 == Dbl(1, 40265318, 214748364)
D020 == Dbl(1, 53687091, 107374184)
D030 == Dbl(1, 80530636, 429496728)
D040 == Dbl(1, 107374182, 214748368)
D050 == Dbl(1, 134217728, 0)
D060 == Dbl(1, 161061273, 322122544)
D070 == Dbl(1, 187904819, 107374176)
D080 == Dbl(1, 214748364, 429496736)
D090 == Dbl(1, 241591910, 214748368)
D100 == Dbl(1, 268435456, 0)

(***************************************************************************)
(* delta.service.ts                                                        *)
(***************************************************************************)
\* Equipment (../types): sizes are {type, value} records
Equipment(tag, type, category, sizes, refs, conf, page) ==
    [tag |-> tag, type |-> type, category |-> category, sizes |-> sizes,
     specs_references |-> refs, raw_text |-> tag \o " " \o type,
     confidence |-> conf, page_number |-> page]

Size(type, value) == [type |-> type, value |-> value]

\* `${s.type}:${s.value}`
SizeKey(s) == s.type \o ":" \o s.value

\* [...new Set(seq)]: first occurrences, in order
RECURSIVE Dedup(_)
Dedup(s) ==
    IF s = <<>> THEN <<>>
    ELSE LET d == Dedup(SubSeq(s, 1, Len(s) - 1))
             x == s[Len(s)]
         IN IF x \in Range(d) THEN d ELSE Append(d, x)

MapSeq(s, F(_)) == [i \in 1..Len(s) |-> F(s[i])]

ConfidenceChanged(eq1, eq2) == FGreater(FAbsDiff(eq1.confidence, eq2.confidence), D020)

findDifferences(eq1, eq2) ==
    LET sizes1 == Dedup(MapSeq(eq1.sizes, SizeKey))
        sizes2 == Dedup(MapSeq(eq2.sizes, SizeKey))
        In1(k) == k \in Range(sizes1)
        In2(k) == k \in Range(sizes2)
        NotIn1(k) == ~In1(k)
        NotIn2(k) == ~In2(k)
        addedSizes == SelectSeqIdx(sizes2, NotIn1, 1)
        removedSizes == SelectSeqIdx(sizes1, NotIn2, 1)
        SizeAdded(k) == <<"Size added", k>>
        SizeRemoved(k) == <<"Size removed", k>>
    IN MapSeq(addedSizes, SizeAdded) \o MapSeq(removedSizes, SizeRemoved)
       \o (IF ConfidenceChanged(eq1, eq2)
           THEN << <<"Confidence changed", <<eq1.confidence, eq2.confidence>> >> >> ELSE <<>>)
       \o (IF eq1.page_number # eq2.page_number
           THEN << <<"Page changed", <<eq1.page_number, eq2.page_number>> >> >> ELSE <<>>)
       \o (IF eq1.type # eq2.type
           THEN << <<"Type changed", <<eq1.type, eq2.type>> >> >> ELSE <<>>)

TagKey_raw(e) == e.tag

\* the key of a record in the lookup maps
TagKey(e) == toUpperCase(e.tag)

\* new Map(list.map(e => [key, e])).get(tag): the last record under the key
HasTag(list, tag) == \E i \in 1..Len(list) : TagKey(list[i]) = tag

MapGet_first(list, tag) ==
    LET i == CHOOSE i \in 1..Len(list) :
                 /\ TagKey(list[i]) = tag
                 /\ \A j \in 1..(i - 1) : TagKey(list[j]) # tag
    IN list[i]

MapGet(list, tag) ==
    LET i == CHOOSE i \in 1..Len(list) :
                 /\ TagKey(list[i]) = tag
                 /\ \A j \in (i + 1)..Len(list) : TagKey(list[j]) # tag
    IN list[i]

AllTags_concat(equipment1, equipment2) == MapSeq(equipment1, TagKey) \o MapSeq(equipment2, TagKey)

\* the iteration order of allTags
AllTags(equipment1, equipment2) == Dedup(MapSeq(equipment1, TagKey) \o MapSeq(equipment2, TagKey))

\* c / t for positive integers, scaled by powers of two until t <= c < 2t:
\* the quotient of the arguments is (c / t) * 2^e
RECURSIVE Normalise(_, _, _)
Normalise(c, t, e) ==
    IF c < t THEN Normalise(2 * c, t, e - 1)
    ELSE IF c >= 2 * t THEN Normalise(c, 2 * t, e + 1)
    ELSE [c |-> c, t |-> t, e |-> e]

\* long division, 13 bits of the quotient at a time: m is the quotient so
\* far, rem the remainder, k the number of steps left
RECURSIVE DivLoop(_, _, _, _)
DivLoop(rem, t, k, m) ==
    IF k = 0 THEN [m |-> m, rem |-> rem]
    ELSE LET digits == (rem * 2^13) \div t
         IN DivLoop((rem * 2^13) % t, t, k - 1,
                    [h |-> m.h * 2^13 + (m.l \div 2^16), l |-> (m.l % 2^16) * 2^13 + digits])

\* the double changedItems / total of two positive integers below 2^17: a
\* significand m of 53 bits, rounded to nearest with ties to even, and the
\* exponent e of its last bit; the value is (m.h * 2^29 + m.l) * 2^e
FDivInt(changedItems, total) ==
    LET n == Normalise(changedItems, total, 0)
        d == DivLoop(n.c - n.t, n.t, 4, [h |-> 0, l |-> 1])
        up == 2 * d.rem > n.t \/ (2 * d.rem = n.t /\ d.m.l % 2 = 1)
    IN [m |-> IF up THEN MagAdd(d.m, [h |-> 0, l |-> 1]) ELSE d.m, e |-> n.e - 52]

RECURSIVE ShiftRight(_, _)
ShiftRight(h, n) == IF n = 0 THEN h ELSE ShiftRight(h \div 2, n - 1)

\* Math.round(x) = floor(x + 1/2) of the double x = (m.h * 2^29 + m.l) * 2^e,
\* for e <= -30
MathRound(m, e) == (ShiftRight(m.h, (0 - e) - 30) + 1) \div 2

\* Math.round((changedItems / total) * 100): a division and a multiplication
\* of doubles, each rounded
RoundPercent(changedItems, total) ==
    IF changedItems = 0 THEN 0
    ELSE LET q == FDivInt(changedItems, total)
         IN MathRound(RoundMag(MagTimes(100, q.m)), q.e)

RECURSIVE DeltaLoop(_, _, _, _)
DeltaLoop(tags, k, equipment1, equipment2) ==
    IF k = 0
    THEN [added |-> <<>>, removed |-> <<>>, changed |-> <<>>, unchanged |-> <<>>]
    ELSE LET r == DeltaLoop(tags, k - 1, equipment1, equipment2)
             tag == tags[k]
             has1 == HasTag(equipment1, tag)
             has2 == HasTag(equipment2, tag)
         IN IF ~has1 /\ has2
            THEN [r EXCEPT !.added = Append(@, MapGet(equipment2, tag))]
            ELSE IF has1 /\ ~has2
            THEN [r EXCEPT !.removed = Append(@, MapGet(equipment1, tag))]
            ELSE IF has1 /\ has2
            THEN LET eq1 == MapGet(equipment1, tag)
                     eq2 == MapGet(equipment2, tag)
                     differences == findDifferences(eq1, eq2)
                 IN IF Len(differences) > 0
                    THEN [r EXCEPT !.changed = Append(@,
                            [tag |-> tag, old |-> eq1, new |-> eq2, differences |-> differences])]
                    ELSE [r EXCEPT !.unchanged = Append(@, eq1)]
            ELSE r

compareTakeoffs(equipment1, equipment2) ==
    LET tags == AllTags(equipment1, equipment2)
        r == DeltaLoop(tags, Len(tags), equipment1, equipment2)
        total == IF Len(equipment1) = 0 THEN 1 ELSE Len(equipment1)
        changedItems == Len(r.added) + Len(r.removed) + Len(r.changed)
    IN [added |-> r.added, removed |-> r.removed, changed |-> r.changed,
        unchanged |-> r.unchanged,
        summary |-> [addedCount |-> Len(r.added), removedCount |-> Len(r.removed),
                     changedCount |-> Len(r.changed), unchangedCount |-> Len(r.unchanged),
                     totalChangePercent |-> RoundPercent(changedItems, total)]]

\* equipment records given to compareTakeoffs
DeltaPool ==
    { Equipment("ahu-1", "Air Handling Unit", "ahu", <<Size("cooling", "50 tons")>>, <<>>, D090, 1),
      Equipment("AHU-1", "Air Handling Unit", "AHU", <<Size("cooling", "55 tons")>>, <<"23 73 13">>, D070, 1),
      Equipment("P-2", "Pump", "pump", <<Size("a:b", "c")>>, <<>>, D070, 3),
      Equipment("p-2", "Pump", "pump", <<Size("a", "b:c")>>, <<>>, D050, 3),
      Equipment("RTU-3", "Rooftop Unit", "rtu", <<>>, <<>>, D090, 4) }

(***************************************************************************)
(* equivalency.service.ts                                                  *)
(***************************************************************************)
\* JavaScript values of specification fields and parsed sizes: a number (in
\* hundredths), NaN, or a string
Num(v) == [k |-> "num", v |-> v, s |-> ""]

NaN == [k |-> "nan", v |-> 0, s |-> ""]

Text(s) == [k |-> "str", v |-> 0, s |-> s]

Spec(name, value, unit) == [name |-> name, value |-> value, unit |-> unit]

\* ManufacturerEquipment; an absent efficiencyRating is ""
Product(id, manufacturer, model, category, specifications, listPrice, efficiencyRating) ==
    [id |-> id, manufacturer |-> manufacturer, model |-> model, category |-> category,
     specifications |-> specifications, listPrice |-> listPrice,
     efficiencyRating |-> efficiencyRating]

MANUFACTURER_DATABASE ==
    <<
      Product("trane-fc-001", "Trane", "Climatuff FC", "fan_coil",
              <<Spec("capacity", Num(200000), "CFM"),
                Spec("cooling", Num(200), "tons"),
                Spec("voltage", Num(20800), "V"),
                Spec("configuration", Text("vertical"), "type")>>,
              2500, "13 SEER"),
      Product("daikin-dfcf-001", "Daikin", "Vinex II FC", "fan_coil",
              <<Spec("capacity", Num(200000), "CFM"),
                Spec("cooling", Num(200), "tons"),
                Spec("voltage", Num(20800), "V"),
                Spec("configuration", Text("vertical"), "type")>>,
              2350, "14 SEER2"),
      Product("carrier-fc-001", "Carrier", "AquaEdge FC", "fan_coil",
              <<Spec("capacity", Num(200000), "CFM"),
                Spec("cooling", Num(200), "tons"),
                Spec("voltage", Num(23000), "V"),
                Spec("configuration", Text("vertical"), "type")>>,
              2450, "13 SEER"),
      Product("trane-ahu-001", "Trane", "Trace AHU", "ahu",
              <<Spec("capacity", Num(500000), "CFM"),
                Spec("cooling", Num(5000), "tons"),
                Spec("heating", Num(50000), "MBH"),
                Spec("voltage", Num(46000), "V"),
                Spec("motor", Num(1500), "HP")>>,
              45000, ""),
      Product("daikin-ahu-001", "Daikin", "Magiksa AHU", "ahu",
              <<Spec("capacity", Num(500000), "CFM"),
                Spec("cooling", Num(4800), "tons"),
                Spec("heating", Num(48000), "MBH"),
                Spec("voltage", Num(46000), "V"),
                Spec("motor", Num(1500), "HP")>>,
              42000, ""),
      Product("iec-ahu-001", "IEC", "Innovative AHU", "ahu",
              <<Spec("capacity", Num(520000), "CFM"),
                Spec("cooling", Num(5000), "tons"),
                Spec("heating", Num(50000), "MBH"),
                Spec("voltage", Num(46000), "V"),
                Spec("motor", Num(1500), "HP")>>,
              38000, ""),
      Product("trane-chiller-001", "Trane", "AquaGenie CVHE", "chiller",
              <<Spec("cooling", Num(10000), "tons"),
                Spec("efficiency", Num(50), "kW/ton"),
                Spec("voltage", Num(46000), "V"),
                Spec("refrigerant", Text("R-1233zd"), "type")>>,
              120000, ""),
      Product("carrier-chiller-001", "Carrier", "AquaEdge 23XRV", "chiller",
              <<Spec("cooling", Num(10000), "tons"),
                Spec("efficiency", Num(48), "kW/ton"),
                Spec("voltage", Num(46000), "V"),
                Spec("refrigerant", Text("R-1233zd"), "type")>>,
              115000, ""),
      Product("trane-rtu-001", "Trane", "IntelliPak RTU", "rtu",
              <<Spec("cooling", Num(2500), "tons"),
                Spec("heating", Num(40000), "MBH"),
                Spec("voltage", Num(46000), "V"),
                Spec("efficiency", Num(1300), "SEER")>>,
              35000, ""),
      Product("daikin-rtu-001", "Daikin", "Pathfinder RTU", "rtu",
              <<Spec("cooling", Num(2500), "tons"),
                Spec("heating", Num(40000), "MBH"),
                Spec("voltage", Num(46000), "V"),
                Spec("efficiency", Num(1400), "SEER2")>>,
              33500, ""),
      Product("lennox-rtu-001", "Lennox", "Strategos RTU", "rtu",
              <<Spec("cooling", Num(2500), "tons"),
                Spec("heating", Num(40000), "MBH"),
                Spec("voltage", Num(46000), "V"),
                Spec("efficiency", Num(1350), "SEER2")>>,
              32000, "")
    >>

CATEGORY_MAP ==
    << [key |-> "ahu", values |-> <<"ahu", "air_handling_unit">>],
       [key |-> "rtu", values |-> <<"rtu", "rooftop_unit", "rooftop">>],
       [key |-> "chiller", values |-> <<"chiller", "chilled_water">>],
       [key |-> "fan_coil", values |-> <<"fan_coil", "fc", "fcu">>],
       [key |-> "vav", values |-> <<"vav", "vav_box", "terminal_unit">>],
       [key |-> "pump", values |-> <<"pump", "pumps">>],
       [key |-> "boiler", values |-> <<"boiler", "heating">>],
       [key |-> "cooling_tower", values |-> <<"cooling_tower", "ct", "tower">>] >>

\* String.prototype.replace(pattern, by) with a one-character string pattern:
\* the first occurrence only
RECURSIVE replaceFirst(_, _, _)
replaceFirst(s, c, by) ==
    IF s = "" THEN ""
    ELSE IF Head(s) = c THEN by \o Tail(s)
    ELSE Head(s) \o replaceFirst(Tail(s), c, by)

_mapCategory(category) ==
    LET normalized == replaceFirst(toLowerCase(category), " ", "_")
        Hit(i) == normalized \in Range(CATEGORY_MAP[i].values)
                    \/ includes(normalized, CATEGORY_MAP[i].key)
    IN IF \E i \in 1..Len(CATEGORY_MAP) : Hit(i)
       THEN CATEGORY_MAP[CHOOSE i \in 1..Len(CATEGORY_MAP) :
                            Hit(i) /\ \A j \in 1..(i - 1) : ~Hit(j)].key
       ELSE category

IsNumChar(c) == IsDigit(c) \/ c = "," \/ c = "."

\* the length of the longest prefix of s whose characters satisfy P
PrefixLen(s, P(_)) ==
    CHOOSE n \in 0..Len(s) :
        /\ \A i \in 1..n : P(CharAt(s, i))
        /\ (n = Len(s) \/ ~P(CharAt(s, n + 1)))

TakeWhile(s, P(_)) == SubSeq(s, 1, PrefixLen(s, P))

DropWhile(s, P(_)) == SubSeq(s, PrefixLen(s, P) + 1, Len(s))

RECURSIVE removeAll(_, _)
removeAll(s, c) ==
    IF s = "" THEN ""
    ELSE IF Head(s) = c THEN removeAll(Tail(s), c)
    ELSE Head(s) \o removeAll(Tail(s), c)

RECURSIVE DigitsValue(_)
DigitsValue(s) == IF s = "" THEN 0 ELSE 10 * DigitsValue(SubSeq(s, 1, Len(s) - 1)) + DigitVal(CharAt(s, Len(s)))

\* parseFloat of a string of digits and dots, in hundredths (the strings
\* given here have at most two decimals)
parseFloat(s) ==
    LET int == TakeWhile(s, IsDigit)
        rest == SubSeq(s, Len(int) + 1, Len(s))
        frac == IF rest # "" /\ Head(rest) = "." THEN TakeWhile(Tail(rest), IsDigit) ELSE ""
        frac2 == SubSeq(frac \o "00", 1, 2)
    IN IF int = "" /\ frac = "" THEN NaN
       ELSE Num(100 * DigitsValue(int) + DigitsValue(frac2))

NotNumChar(c) == ~IsNumChar(c)

\* value.match(/([\d,.]+)/), then the commas removed and parseFloat
_parseNumericValue(value) ==
    LET from == DropWhile(value, NotNumChar)
        run == TakeWhile(from, IsNumChar)
    IN IF run = "" THEN Null ELSE parseFloat(removeAll(run, ","))

\* the Map of lower-cased size type to value: a later size replaces an earlier
_parseSpecs(equipment) ==
    LET Parsed(i) == _parseNumericValue(equipment.sizes[i].value)
        Keep == {i \in 1..Len(equipment.sizes) : Parsed(i) # Null}
        Key(i) == toLowerCase(equipment.sizes[i].type)
    IN [n \in {Key(i) : i \in Keep} |->
          Parsed(CHOOSE i \in Keep : Key(i) = n /\ \A j \in Keep : Key(j) = n => j <= i)]

\* the tolerance in percent
_getTolerance(specName) ==
    LET n == toLowerCase(specName)
    IN IF n \in {"capacity", "cooling", "heating"} THEN 10
       ELSE IF n = "motor" THEN 15
       ELSE IF n \in {"voltage", "efficiency"} THEN 5
       ELSE 10

_isCritical(specName) == toLowerCase(specName) \in {"cooling", "capacity", "voltage", "motor"}

\* Math.abs(original - matched) / original as the fraction n / d, Infinity or NaN.
\* The values compared here are multiples of 0.25 below 2^20: their doubles
\* and their difference are exact and the quotient is correctly rounded, so
\* it compares with the literals 0.05, 0.1, 0.15 and their doubles as the
\* fraction compares with 5, 10, 15 percent.
percentDiff(original, matched) ==
    IF original.k # "num" \/ matched.k # "num" THEN [k |-> "nan", n |-> 0, d |-> 1]
    ELSE IF original.v = 0
    THEN (IF matched.v = 0 THEN [k |-> "nan", n |-> 0, d |-> 1] ELSE [k |-> "inf", n |-> 0, d |-> 1])
    ELSE [k |-> "num", d |-> original.v,
          n |-> IF original.v >= matched.v THEN original.v - matched.v ELSE matched.v - original.v]

\* pd < tolerance * times, pd > tolerance * times, with the tolerance in percent
PdLess(pd, tolerance, times) == pd.k = "num" /\ pd.n * 100 < tolerance * times * pd.d

PdGreater(pd, tolerance, times) ==
    pd.k = "inf" \/ (pd.k = "num" /\ pd.n * 100 > tolerance * times * pd.d)

\* originalValue === spec.value, spec.value > originalValue
StrictEq(a, b) == a.k = "num" /\ b.k = "num" /\ a.v = b.v

JsGreater(a, b) == a.k = "num" /\ b.k = "num" /\ a.v > b.v

capitalize(name) == IF name = "" THEN "" ELSE UpperChar(Head(name)) \o Tail(name)

_compareSpec(name, original, matched, unit) ==
    LET tolerance == _getTolerance(name)
        pd == percentDiff(original, matched)
    IN [specName |-> capitalize(name),
        originalValue |-> <<original, unit>>,
        matchedValue |-> <<matched, unit>>,
        isBetter |-> FALSE,
        severity |-> IF PdGreater(pd, tolerance, 2) THEN "critical" ELSE "minor",
        description |-> IF name \in {"capacity", "cooling", "heating", "motor", "voltage"}
                        THEN <<original, matched, unit>> ELSE <<original, matched>>]

\* the local variables of _calculateMatch before the loop
CalcStart == [score |-> D050, matchedCount |-> 0, differences |-> <<>>]

Band_inclusive(originalValue, value, tolerance) ==
    LET pd == percentDiff(originalValue, value)
    IN IF StrictEq(originalValue, value) THEN "equal"
       ELSE IF PdLess(pd, tolerance, 1) THEN "within"
       ELSE IF ~PdGreater(pd, tolerance, 2) /\ pd.k = "num" THEN "near"
       ELSE "beyond"

\* the branch taken for a field: lines 399, 405, 408, 411
Band(originalValue, value, tolerance) ==
    LET pd == percentDiff(originalValue, value)
    IN IF StrictEq(originalValue, value) THEN "equal"
       ELSE IF PdLess(pd, tolerance, 1) THEN "within"
       ELSE IF PdLess(pd, tolerance, 2) THEN "near"
       ELSE "beyond"

\* one iteration of the loop over candidate.specifications
CompareStep(acc, spec, specs) ==
    IF toLowerCase(spec.name) \notin DOMAIN specs THEN acc
    ELSE LET originalValue == specs[toLowerCase(spec.name)]
             diff == _compareSpec(spec.name, originalValue, spec.value, spec.unit)
             band == Band(originalValue, spec.value, _getTolerance(spec.name))
             better == JsGreater(spec.value, originalValue)
         IN [score |-> CASE band = "equal" -> FAdd(acc.score, D015)
                         [] band = "within" -> FAdd(acc.score, D010)
                         [] band = "near" -> FAdd(acc.score, D005)
                         [] OTHER -> FSub(acc.score, D010),
             matchedCount |-> acc.matchedCount + 1,
             differences |-> Append(acc.differences,
                 CASE band = "equal" -> diff
                   [] band \in {"within", "near"} -> [diff EXCEPT !.isBetter = better]
                   [] OTHER -> [diff EXCEPT !.isBetter = FALSE, !.severity = "critical"])]

RECURSIVE CompareLoop(_, _, _)
CompareLoop(specifications, k, specs) ==
    IF k = 0 THEN CalcStart
    ELSE CompareStep(CompareLoop(specifications, k - 1, specs), specifications[k], specs)

EfficiencyBonus_atLeast(equipment, candidate) ==
    candidate.efficiencyRating # "" /\ ~FLess(equipment.confidence, D070)

\* candidate.efficiencyRating && equipment.confidence > 0.7
EfficiencyBonus(equipment, candidate) ==
    candidate.efficiencyRating # "" /\ FGreater(equipment.confidence, D070)

Clamp01_upper(score) == IF FLess(score, D100) THEN score ELSE D100

\* Math.max(0, Math.min(1, score))
Clamp01(score) ==
    LET m == IF FLess(score, D100) THEN score ELSE D100
    IN IF FLess(m, DZero) THEN DZero ELSE m

IsEquivalent_one(criticalDiffs, matchedCount) == criticalDiffs = 0 /\ matchedCount >= 1

\* criticalDiffs === 0 && matchedCount >= 2
IsEquivalent(criticalDiffs, matchedCount) == criticalDiffs = 0 /\ matchedCount >= 2

\* _calculateMatch after the loop
CalcFinish(equipment, candidate, specs, acc) ==
    LET IsMissing(s) == _isCritical(s.name) /\ toLowerCase(s.name) \notin DOMAIN specs
        criticalMissing == Len(SelectSeqIdx(candidate.specifications, IsMissing, 1))
        penalised == FSub(acc.score, FMulInt(criticalMissing, D010))
        bonused == IF EfficiencyBonus(equipment, candidate) THEN FAdd(penalised, D005) ELSE penalised
        criticalDiffs == Cardinality({i \in 1..Len(acc.differences) :
                                        acc.differences[i].severity = "critical"})
    IN [originalEquipment |-> equipment,
        matchedEquipment |-> candidate,
        matchScore |-> Clamp01(bonused),
        differences |-> acc.differences,
        isEquivalent |-> IsEquivalent(criticalDiffs, acc.matchedCount)]

_calculateMatch(equipment, candidate, specs) ==
    CalcFinish(equipment, candidate, specs,
               CompareLoop(candidate.specifications, Len(candidate.specifications), specs))

Reasonable_atLeast(match) == ~FLess(match.matchScore, D030)

\* match => match.matchScore > 0.3
Reasonable(match) == FGreater(match.matchScore, D030)

\* Array.prototype.sort((a, b) => b.matchScore - a.matchScore): stable
RECURSIVE SortByScore(_)
SortByScore(ms) ==
    IF ms = <<>> THEN <<>>
    ELSE LET sorted == SortByScore(SubSeq(ms, 1, Len(ms) - 1))
             x == ms[Len(ms)]
             \* x goes behind every element that does not score less
             n == Cardinality({i \in 1..Len(sorted) : ~FLess(sorted[i].matchScore, x.matchScore)})
         IN SubSeq(sorted, 1, n) \o <<x>> \o SubSeq(sorted, n + 1, Len(sorted))

\* the parts of the summary sentence
_generateSummary(equipment, matches, mine) ==
    IF Len(matches) = 0 THEN [none |-> equipment.tag]
    ELSE LET best == matches[1]
             isMyCompany == toLowerCase(best.matchedEquipment.manufacturer) \in mine
         IN [found |-> Len(matches),
             tag |-> equipment.tag,
             yours |-> IF isMyCompany
                       THEN <<best.matchedEquipment.manufacturer, best.matchedEquipment.model>>
                       ELSE <<>>,
             verdict |-> IF best.isEquivalent
                         THEN [direct |-> best.matchScore]
                         ELSE [review |-> Cardinality({i \in 1..Len(best.differences) :
                                              best.differences[i].severity = "critical"})]]

Receiver_filtered(array, category) ==
    LET InCategory(eq) == eq.category = category
    IN SelectSeqIdx(array, InCategory, 1)

\* MANUFACTURER_DATABASE after MANUFACTURER_DATABASE.filter(...): filter
\* builds a new array and leaves its receiver as it was; map, the second
\* filter and sort then work on that new array
Receiver(array, category) == array

Candidates_exact(category, targetManufacturers) ==
    LET InCategory(eq) == eq.category = category
        byCategory == SelectSeqIdx(catalog, InCategory, 1)
        list == targetManufacturers.list
        IsTarget(eq) == eq.manufacturer \in Range(list)
    IN IF targetManufacturers.given /\ Len(list) > 0
       THEN SelectSeqIdx(byCategory, IsTarget, 1)
       ELSE byCategory

\* the catalog products of the category, then of the target manufacturers
Candidates(category, targetManufacturers) ==
    LET InCategory(eq) == eq.category = category
        byCategory == SelectSeqIdx(catalog, InCategory, 1)
        list == targetManufacturers.list
        targetSet == {toLowerCase(list[i]) : i \in 1..Len(list)}
        IsTarget(eq) == toLowerCase(eq.manufacturer) \in targetSet
    IN IF targetManufacturers.given /\ Len(list) > 0
       THEN SelectSeqIdx(byCategory, IsTarget, 1)
       ELSE byCategory

findEquivalencies_home(equipment, targetManufacturers, mine) ==
    LET category == _mapCategory(equipment.category)
        specs == _parseSpecs(equipment)
        candidates == Candidates(category, targetManufacturers)
        Score(candidate) == _calculateMatch(equipment, candidate, specs)
        sorted == SortByScore(SelectSeqIdx(MapSeq(candidates, Score), Reasonable, 1))
        IsMine(m) == toLowerCase(m.matchedEquipment.manufacturer) \in mine
        NotMine(m) == ~IsMine(m)
        matches == SelectSeqIdx(sorted, IsMine, 1) \o SelectSeqIdx(sorted, NotMine, 1)
    IN [originalTag |-> equipment.tag,
        category |-> category,
        matches |-> matches,
        bestMatch |-> IF Len(matches) > 0 THEN matches[1] ELSE Null,
        totalMatches |-> Len(matches),
        summary |-> _generateSummary(equipment, matches, mine)]

findEquivalencies(equipment, targetManufacturers, mine) ==
    LET category == _mapCategory(equipment.category)
        specs == _parseSpecs(equipment)
        candidates == Candidates(category, targetManufacturers)
        Score(candidate) == _calculateMatch(equipment, candidate, specs)
        matches == SortByScore(SelectSeqIdx(MapSeq(candidates, Score), Reasonable, 1))
    IN [originalTag |-> equipment.tag,
        category |-> category,
        matches |-> matches,
        bestMatch |-> IF Len(matches) > 0 THEN matches[1] ELSE Null,
        totalMatches |-> Len(matches),
        summary |-> _generateSummary(equipment, matches, mine)]

\* new EquivalencyService(["Daikin", "IEC"])
Construct(names) == {toLowerCase(names[i]) : i \in 1..Len(names)}

\* the myManufacturers arguments services are constructed with
HomeLists == {<<"Daikin", "IEC">>, <<"Trane", "JCI">>}

\* the sizes of the equipment given to findEquivalencies
SizePool ==
    { Size("cooling", "50 tons"), Size("Cooling", "62.5 tons"), Size("cooling", "10 tons"),
      Size("capacity", "5,000 CFM"), Size("voltage", "460V"), Size("voltage", "N/A") }

EquivCategories == {"ahu", "Rooftop Unit", "chiller", "FCU", "duct"}

EquivEquipment ==
    { Equipment("EQ-1", "unit", category, sizes, <<>>, confidence, 1) :
        category \in EquivCategories, sizes \in SeqsUpTo(SizePool, MaxSizes),
        confidence \in {D070, D090} }

\* the optional targetManufacturers argument
Absent == [given |-> FALSE, list |-> <<>>]

Given(list) == [given |-> TRUE, list |-> list]

TargetLists == {Absent, Given(<<>>), Given(<<"daikin">>), Given(<<"Trane", "IEC">>)}

\* equipment and candidates given to _calculateMatch directly: products a
\* catalog can hold, with values on and around the tolerance bands of 20
CalcEquipment ==
    { Equipment("EQ-2", "unit", "ahu",
                <<Size("cooling", "20 tons"), Size("voltage", "20 V"), Size("motor", "20 HP"),
                  Size("weight", "20 lb"), Size("efficiency", "20")>>, <<>>, D090, 1),
      Equipment("EQ-3", "unit", "ahu",
                <<Size("cooling", "0 tons"), Size("voltage", "N.A."), Size("motor", "n/a"),
                  Size("weight", "5 lb")>>,
                <<>>, D070, 1),
      Equipment("EQ-4", "unit", "ahu", <<>>, <<>>, D080, 1) }

CalcSpecPool ==
    { Spec("cooling", Num(2000), "tons"), Spec("cooling", Num(1900), "tons"),
      Spec("cooling", Num(1800), "tons"), Spec("cooling", Num(1600), "tons"),
      Spec("cooling", Num(2200), "tons"), Spec("voltage", Num(1900), "V"),
      Spec("voltage", Num(1800), "V"),
      Spec("motor", Num(1700), "HP"), Spec("motor", Num(1400), "HP"),
      Spec("Weight", Num(2100), "lb"), Spec("Weight", Text("heavy"), "lb"),
      Spec("efficiency", Num(2100), "SEER"), Spec("capacity", Num(2000), "CFM") }

\* candidates with more fields than MaxSpecs: one that every rule penalises,
\* one that equals EQ-2 in four fields
LongCandidates ==
    { Product("x-low", "Acme", "Low", "ahu",
              <<Spec("cooling", Num(2000), "tons"), Spec("voltage", Num(1900), "V"),
                Spec("Weight", Text("heavy"), "lb"), Spec("motor", Num(1700), "HP"),
                Spec("capacity", Num(2000), "CFM"), Spec("Cooling", Num(1000), "tons")>>,
              1000, ""),
      Product("x-high", "Acme", "High", "ahu",
              <<Spec("cooling", Num(2000), "tons"), Spec("voltage", Num(2000), "V"),
                Spec("motor", Num(2000), "HP"), Spec("Weight", Num(2000), "lb")>>,
              1000, "14 SEER") }

CalcCandidates ==
    { Product("x-001", "Acme", "X", "ahu", specifications, 1000, efficiencyRating) :
        specifications \in SeqsUpTo(CalcSpecPool, MaxSpecs), efficiencyRating \in {"", "14 SEER"} }
    \cup LongCandidates

(***************************************************************************)
(* spec.service.ts                                                         *)
(***************************************************************************)
\* a string where the code may also hold null
Str(s) == [null |-> FALSE, value |-> s]

\* the outcome of a call: its value, or the TypeError it raised
Returned(v) == [threw |-> FALSE, value |-> v]

TypeError == [threw |-> TRUE, value |-> <<>>]

Section(reference, content) == [reference |-> reference, content |-> content]

\* \s of the regular expressions and of trim(), on the characters used here
IsSpace(c) == c \in {" ", "\t", "\n"}

\* [\s-]
IsSeparator(c) == IsSpace(c) \/ c = "-"

\* \d{n} at position i
DigitsAt(s, i, n) == i + n - 1 <= Len(s) /\ \A k \in i..(i + n - 1) : IsDigit(CharAt(s, k))

\* [\s-]* from position i on: the position behind the run
SkipSeparators(s, i) ==
    CHOOSE j \in i..(Len(s) + 1) :
        /\ \A k \in i..(j - 1) : IsSeparator(CharAt(s, k))
        /\ j = Len(s) + 1 \/ ~IsSeparator(CharAt(s, j))

\* the last position of a match of \d{2}[\s-]*\d{2}[\s-]*\d{4} starting at i, or 0
MatchEnd(s, i) ==
    IF ~DigitsAt(s, i, 2) THEN 0
    ELSE LET j == SkipSeparators(s, i + 2)
         IN IF ~DigitsAt(s, j, 2) THEN 0
            ELSE LET k == SkipSeparators(s, j + 2)
                 IN IF DigitsAt(s, k, 4) THEN k + 3 ELSE 0

\* replace(/[\s-]+/g, ' ')
RECURSIVE collapseSeparators(_)
collapseSeparators(s) ==
    IF s = "" THEN ""
    ELSE IF IsSeparator(Head(s))
    THEN " " \o collapseSeparators(SubSeq(s, SkipSeparators(s, 1), Len(s)))
    ELSE Head(s) \o collapseSeparators(Tail(s))

\* the first position from i on where the expression matches, or 0
RECURSIVE FirstMatch(_, _)
FirstMatch(s, i) ==
    IF i > Len(s) THEN 0
    ELSE IF MatchEnd(s, i) > 0 THEN i
    ELSE FirstMatch(s, i + 1)

extractSectionNumber(ref) ==
    LET i == FirstMatch(ref, 1)
    IN IF i = 0 THEN Null
       ELSE Str(collapseSeparators(SubSeq(ref, i, MatchEnd(ref, i))))

\* content.split('\n')
RECURSIVE splitLines(_)
splitLines(s) ==
    IF ~Contains(s, "\n") THEN <<s>>
    ELSE LET i == CHOOSE i \in 1..Len(s) : CharAt(s, i) = "\n" /\ ~Contains(SubSeq(s, 1, i - 1), "\n")
         IN <<SubSeq(s, 1, i - 1)>> \o splitLines(SubSeq(s, i + 1, Len(s)))

\* l => l.trim()
NotBlank(l) == \E i \in 1..Len(l) : ~IsSpace(CharAt(l, i))

extractSectionTitle(content) ==
    LET lines == SelectSeqIdx(splitLines(content), NotBlank, 1)
    IN IF lines = <<>> THEN ""
       ELSE SubSeq(lines[1], 1, IF Len(lines[1]) < 100 THEN Len(lines[1]) ELSE 100)

typeKeywords ==
    [ahu |-> <<"air handling unit", "ahu", "make-up air", "doas", "outdoor air">>,
     rtu |-> <<"rooftop unit", "rtu", "roof top", "packaged unit">>,
     chiller |-> <<"chiller", "chilled water", "chiller plant">>,
     cooling_tower |-> <<"cooling tower", "ct", "tower">>,
     boiler |-> <<"boiler", "heating plant", "hot water">>,
     pump |-> <<"pump", "pumps", "pumping">>,
     fan |-> <<"fan", "fans", "exhaust", "supply", "return">>,
     vav |-> <<"vav", "terminal unit", "variable air">>,
     heat_exchanger |-> <<"heat exchanger", "hx", "plate heat">>,
     tank |-> <<"tank", "storage">>,
     valve |-> <<"valve", "valves", "control valve">>,
     plumbing_fixtures |-> <<"water closet", "lavatory", "fixture", "toilet">>,
     water_heater |-> <<"water heater", "wh", "domestic water">>,
     motor |-> <<"motor", "motors", "drives">>,
     controller |-> <<"controller", "ddc", "bacnet", "building automation">>,
     sensor |-> <<"sensor", "transducer", "measurement">>]

\* the names an object literal inherits: looking one up gives a value that is
\* truthy and not iterable
ObjectPrototypeKeys ==
    {"constructor", "toString", "toLocaleString", "valueOf", "hasOwnProperty",
     "isPrototypeOf", "propertyIsEnumerable", "__proto__", "__defineGetter__",
     "__defineSetter__", "__lookupGetter__", "__lookupSetter__"}

\* typeKeywords[eq.category] || []
KeywordsOf(category) ==
    IF category \in DOMAIN typeKeywords THEN [iterable |-> TRUE, list |-> typeKeywords[category]]
    ELSE IF category \in ObjectPrototypeKeys THEN [iterable |-> FALSE, list |-> <<>>]
    ELSE [iterable |-> TRUE, list |-> <<>>]

specText_joined(spec) == toLowerCase(spec.reference \o spec.content)

\* `${spec.reference} ${spec.content}`.toLowerCase()
specText(spec) == toLowerCase(spec.reference \o " " \o spec.content)

\* for (const keyword of keywords) raises a TypeError when it is reached
\* with keywords that are not iterable
Throws(eq, specs) == ~KeywordsOf(eq.category).iterable /\ specs # <<>>

Scanned_numbered(specs) ==
    LET Numbered(spec) == extractSectionNumber(spec.reference) # Null
    IN SelectSeqIdx(specs, Numbered, 1)

\* for (const spec of specs): the sections whose text is searched
Scanned(specs) == specs

findMatchingSpecs(eq, specs) ==
    LET keywords == KeywordsOf(eq.category)
        Matching(spec) == LET text == specText(spec)
                          IN \E i \in 1..Len(keywords.list) : includes(text, keywords.list[i])
    IN IF Throws(eq, specs) THEN TypeError
       ELSE Returned(SelectSeqIdx(Scanned(specs), Matching, 1))

\* the rank of a character of a section number in the collation: the space
\* sorts before the digits
CharRank(c) == IF c = " " THEN 0 ELSE 1 + DigitVal(c)

\* a.localeCompare(b) on section numbers: -1, 0 or 1
RECURSIVE localeCompare(_, _)
localeCompare(a, b) ==
    IF a = "" THEN (IF b = "" THEN 0 ELSE 0 - 1)
    ELSE IF b = "" THEN 1
    ELSE IF CharRank(Head(a)) < CharRank(Head(b)) THEN 0 - 1
    ELSE IF CharRank(Head(a)) > CharRank(Head(b)) THEN 1
    ELSE localeCompare(Tail(a), Tail(b))

\* sort((a, b) => a.sectionNumber.localeCompare(b.sectionNumber)): stable
RECURSIVE SortBySection(_)
SortBySection(bs) ==
    IF bs = <<>> THEN <<>>
    ELSE LET sorted == SortBySection(SubSeq(bs, 1, Len(bs) - 1))
             x == bs[Len(bs)]
             n == Cardinality({i \in 1..Len(sorted) :
                                  localeCompare(sorted[i].sectionNumber, x.sectionNumber) <= 0})
         IN SubSeq(sorted, 1, n) \o <<x>> \o SubSeq(sorted, n + 1, Len(sorted))

NonEmpty_any(bucket) == TRUE

\* spec => spec.equipment.length > 0
NonEmpty(bucket) == Len(bucket.equipment) > 0

\* the position of the key sectionNum in the map, or 0
KeyIndex(specMap, sectionNum) ==
    IF \E i \in 1..Len(specMap) : specMap[i].sectionNumber = sectionNum
    THEN CHOOSE i \in 1..Len(specMap) : specMap[i].sectionNumber = sectionNum
    ELSE 0

\* the map after the first k sections, lines 30-40: its values in insertion
\* order; Map.set keeps the position of a key that is present
RECURSIVE SeedLoop(_, _)
SeedLoop(specSections, k) ==
    IF k = 0 THEN <<>>
    ELSE LET specMap == SeedLoop(specSections, k - 1)
             spec == specSections[k]
             sectionNum == extractSectionNumber(spec.reference)
             bucket == [sectionNumber |-> sectionNum.value,
                        sectionTitle |-> extractSectionTitle(spec.content),
                        equipment |-> <<>>,
                        pageNumber |-> Null]
             at == KeyIndex(specMap, sectionNum.value)
         IN IF sectionNum = Null THEN specMap
            ELSE IF at = 0 THEN Append(specMap, bucket)
            ELSE [specMap EXCEPT ![at] = bucket]

\* the map after eq is pushed for the first k of its matching specs, lines 46-51
RECURSIVE PushLoop(_, _, _, _)
PushLoop(specMap, eq, matchingSpecs, k) ==
    IF k = 0 THEN specMap
    ELSE LET before == PushLoop(specMap, eq, matchingSpecs, k - 1)
             sectionNum == extractSectionNumber(matchingSpecs[k].reference)
             at == IF sectionNum = Null THEN 0 ELSE KeyIndex(before, sectionNum.value)
         IN IF at = 0 THEN before
            ELSE [before EXCEPT ![at].equipment = Append(@, eq)]

\* the map after the first k records, lines 43-52
RECURSIVE CorrelateLoop(_, _, _)
CorrelateLoop(equipment, k, specSections) ==
    IF k = 0 THEN SeedLoop(specSections, Len(specSections))
    ELSE LET matchingSpecs == findMatchingSpecs(equipment[k], specSections).value
         IN PushLoop(CorrelateLoop(equipment, k - 1, specSections), equipment[k],
                     matchingSpecs, Len(matchingSpecs))

correlateEquipmentToSpecs(equipment, specSections) ==
    IF \E i \in 1..Len(equipment) : Throws(equipment[i], specSections)
    THEN TypeError
    ELSE Returned(SortBySection(SelectSeqIdx(CorrelateLoop(equipment, Len(equipment), specSections),
                                             NonEmpty, 1)))

Gap(eq, issue, severity, suggestion) ==
    [equipmentTag |-> eq.tag, equipmentType |-> eq.type, issue |-> issue,
     severity |-> severity, suggestion |-> suggestion]

\* the decimal digits of a natural number
RECURSIVE DigitsOf(_)
DigitsOf(n) ==
    IF n < 10 THEN CharAt(DigitChars, n + 1)
    ELSE DigitsOf(n \div 10) \o CharAt(DigitChars, (n % 10) + 1)

\* (confidence * 100).toFixed(0), from the leading 21 bits of the double:
\* exact for confidences that are not within 10^-4 of a half percent
percentFixed(confidence) == DigitsOf(((confidence.h \div 2^8) * 100 + 2^19) \div 2^20)

\* severityOrder
severityOrder == [high |-> 0, medium |-> 1, low |-> 2]

SortBySeverity_none(gaps) == gaps

\* gaps.sort((a, b) => severityOrder[a.severity] - severityOrder[b.severity]): stable
RECURSIVE SortBySeverity(_)
SortBySeverity(gaps) ==
    IF gaps = <<>> THEN <<>>
    ELSE LET sorted == SortBySeverity(SubSeq(gaps, 1, Len(gaps) - 1))
             x == gaps[Len(gaps)]
             n == Cardinality({i \in 1..Len(sorted) :
                                  severityOrder[sorted[i].severity] <= severityOrder[x.severity]})
         IN SubSeq(sorted, 1, n) \o <<x>> \o SubSeq(sorted, n + 1, Len(sorted))

\* the first loop of findSpecGaps, lines 129-144
RECURSIVE NoSpecLoop(_, _, _)
NoSpecLoop(equipment, k, specSections) ==
    IF k = 0 THEN <<>>
    ELSE LET eq == equipment[k]
             equipmentWithSpecs == {equipment[i].tag : i \in {j \in 1..Len(equipment) :
                                                          Len(equipment[j].specs_references) > 0}}
             before == NoSpecLoop(equipment, k - 1, specSections)
         IN IF eq.tag \notin equipmentWithSpecs
               /\ Len(findMatchingSpecs(eq, specSections).value) = 0
            THEN Append(before, Gap(eq, "No matching spec section found",
                                    IF FLess(eq.confidence, D050) THEN "medium" ELSE "low",
                                    "Create spec section for " \o eq.type))
            ELSE before

NoSizing_atMost(eq) == Len(eq.sizes) = 0 /\ ~FGreater(eq.confidence, D070)

\* eq.sizes.length === 0 && eq.confidence < 0.7
NoSizing(eq) == Len(eq.sizes) = 0 /\ FLess(eq.confidence, D070)

LowConfidence_else(eq) == FLess(eq.confidence, D050) /\ ~NoSizing(eq)

\* eq.confidence < 0.5, tested after and apart from the sizing rule
LowConfidence(eq) == FLess(eq.confidence, D050)

\* the second loop of findSpecGaps, lines 147-168
RECURSIVE SizingLoop(_, _)
SizingLoop(equipment, k) ==
    IF k = 0 THEN <<>>
    ELSE LET eq == equipment[k]
         IN SizingLoop(equipment, k - 1)
            \o (IF NoSizing(eq)
                THEN <<Gap(eq, "No sizing information extracted", "high",
                           "Verify size in drawings or specs")>>
                ELSE <<>>)
            \o (IF LowConfidence(eq)
                THEN <<Gap(eq, "Low confidence extraction (" \o percentFixed(eq.confidence) \o "%)",
                           "high", "Manual review recommended")>>
                ELSE <<>>)

findSpecGaps(equipment, specSections) ==
    LET equipmentWithSpecs == {equipment[i].tag : i \in {j \in 1..Len(equipment) :
                                                     Len(equipment[j].specs_references) > 0}}
    IN IF \E i \in 1..Len(equipment) :
             /\ equipment[i].tag \notin equipmentWithSpecs
             /\ Throws(equipment[i], specSections)
       THEN TypeError
       ELSE Returned(SortBySeverity(NoSpecLoop(equipment, Len(equipment), specSections)
                                    \o SizingLoop(equipment, Len(equipment))))

\* equipment records given to the spec service
SpecEquipmentPool ==
    { Equipment("A", "Air Handling Unit", "ahu", <<>>, <<"23 73 1300">>, D060, 1),
      Equipment("A", "Chiller", "chiller", <<Size("cooling", "50 tons")>>, <<>>, D090, 2),
      Equipment("B", "Air Handling Unit", "ahu", <<>>, <<>>, D030, 1),
      Equipment("C", "Cooling Tower", "cooling_tower", <<>>, <<>>, D070, 3),
      Equipment("D", "Duct", "duct", <<Size("width", "12 in")>>, <<>>, D050, 3),
      Equipment("E", "Unit", "constructor", <<Size("cooling", "5 tons")>>, <<>>, D090, 4) }

\* spec sections given to the spec service
SectionPool ==
    { Section("23-73-1300", "Air Handling Unit\nprovide"),
      Section("23 73  1300 chilled", "water AHU"),
      Section("23641000", "\n CHILLER plant"),
      Section("AHU schedule", ""),
      Section("Section 23 05 0000 a", "hu") }

(***************************************************************************)
(* equivalency.service.ts: generateComparison                              *)
(***************************************************************************)
\* basePrices of _estimatePrice
basePrices ==
    [ahu |-> 40000, rtu |-> 30000, chiller |-> 100000, fan_coil |-> 2000,
     pump |-> 5000, boiler |-> 20000]

\* magnitudes with an integer part: the value of [i, h, l] is
\* i + (h * 2^29 + l) * 2^-57, with h < 2^28
WideAdd(a, b) ==
    LET l == a.l + b.l
        h == a.h + b.h + (l \div Limb)
    IN [i |-> a.i + b.i + (h \div 2^28), h |-> h % 2^28, l |-> l % Limb]

\* the exact product k * m of a non-negative integer and a magnitude
RECURSIVE WideTimes(_, _)
WideTimes(k, m) ==
    IF k = 0 THEN [i |-> 0, h |-> 0, l |-> 0]
    ELSE CHOOSE product \in
            { IF k % 2 = 1 THEN WideAdd(WideAdd(half, half), m) ELSE WideAdd(half, half)
              : half \in {WideTimes(k \div 2, m)} } : TRUE

\* the number of binary digits of n
RECURSIVE BitLength(_)
BitLength(n) == IF n = 0 THEN 0 ELSE 1 + BitLength(n \div 2)

\* a wide magnitude of at least 1 rounded to the 53 bits of a significand,
\* to nearest with ties to even
WideRound(m) ==
    LET q == 2^(BitLength(m.i) + 4)
        r == m.l % q
        up == 2 * r > q \/ (2 * r = q /\ ((m.l \div q) % 2) = 1)
        l2 == IF up THEN m.l - r + q ELSE m.l - r
        h2 == m.h + (l2 \div Limb)
    IN [i |-> m.i + (h2 \div 2^28), h |-> h2 % 2^28, l |-> l2 % Limb]

\* Math.round(base * multiplier) for a multiplier in [0, 1]: the product is
\* rounded to a double, then to the integer nearest to it, halves upwards
RoundProduct(base, multiplier) ==
    LET exact == WideTimes(base, [i |-> 0, h |-> multiplier.h, l |-> multiplier.l])
        product == IF exact.i = 0
                   THEN LET m == RoundMag(exact)
                        IN [i |-> m.h \div 2^28, h |-> m.h % 2^28, l |-> m.l]
                   ELSE WideRound(exact)
    IN product.i + (IF product.h >= 2^27 THEN 1 ELSE 0)

\* a number of dollars, or NaN
Amount(n) == [nan |-> FALSE, value |-> n]

NotANumber == [nan |-> TRUE, value |-> 0]

_estimatePrice_base(equipment) ==
    LET category == _mapCategory(equipment.category)
    IN IF category \in DOMAIN basePrices
       THEN Amount(basePrices[category])
       ELSE IF category \in ObjectPrototypeKeys THEN NotANumber
       ELSE Amount(10000)

\* basePrices[category] || 10000 is read from an object literal: a name
\* inherited from Object.prototype yields a function, and its product NaN
_estimatePrice(equipment) ==
    LET category == _mapCategory(equipment.category)
    IN IF category \in DOMAIN basePrices
       THEN Amount(RoundProduct(basePrices[category], equipment.confidence))
       ELSE IF category \in ObjectPrototypeKeys THEN NotANumber
       ELSE Amount(RoundProduct(10000, equipment.confidence))

\* _getStatusEmoji
_getStatusEmoji(severity, isBetter) ==
    IF severity = "critical" THEN "red" ELSE IF isBetter THEN "green" ELSE "yellow"

\* the price lines of the comparison: lines 307-315
PriceComparison(original, matched) ==
    IF matched.listPrice # 0
    THEN LET estimate == _estimatePrice(original)
         IN [estimated |-> estimate,
             listPrice |-> matched.listPrice,
             savings |-> IF ~estimate.nan /\ estimate.value - matched.listPrice > 0
                         THEN Amount(estimate.value - matched.listPrice)
                         ELSE Null]
    ELSE Null

\* the Markdown text of generateComparison, by its parts: the message of
\* line 282, or the title, the two equipment lines, the rows of the table,
\* the summary, the price lines and the closing line
Comparison(original, targetManufacturer, match, mine) ==
    IF match = Null
    THEN [noMatch |-> <<targetManufacturer, original.tag>>]
    ELSE [title |-> original.tag,
          original |-> match.originalEquipment.raw_text,
          matched |-> <<match.matchedEquipment.manufacturer, match.matchedEquipment.model>>,
          rows |-> [k \in 1..Len(match.differences) |->
                       <<match.differences[k].specName, match.differences[k].originalValue,
                         match.differences[k].matchedValue,
                         _getStatusEmoji(match.differences[k].severity,
                                         match.differences[k].isBetter)>>],
          matchScore |-> match.matchScore,
          equivalent |-> match.isEquivalent,
          price |-> PriceComparison(original, match.matchedEquipment),
          yours |-> toLowerCase(match.matchedEquipment.manufacturer) \in mine]

\* generateComparison: the report of findEquivalencies for the one target
\* manufacturer, and the text for its best match
generateComparison(original, targetManufacturer, mine) ==
    CHOOSE comparison \in
        { Comparison(original, targetManufacturer, report.bestMatch, mine)
          : report \in {findEquivalencies(original, Given(<<targetManufacturer>>), mine)} }
        : TRUE

\* the targetManufacturer argument of generateComparison
TargetNames == {"Trane", "daikin", "Carrier", "IEC", "Lennox", "Acme"}

(***************************************************************************)
(* services/auth.service.ts and routes/auth.routes.ts                      *)
(***************************************************************************)
MAX_LOGIN_ATTEMPTS == 5

\* 15 * 60 * 1000 milliseconds; the clock of the model counts minutes
LOCKOUT_DURATION == 15

\* new Map(), Map.prototype.has, set and delete
EmptyMap == [k \in {} |-> Null]

Has(map, key) == key \in DOMAIN map

MapSet(map, key, value) == [k \in DOMAIN map \cup {key} |-> IF k = key THEN value ELSE map[k]]

MapDelete(map, key) == [k \in DOMAIN map \ {key} |-> map[k]]

\* bcrypt.hash and bcrypt.compare: a hash is no password, and matches the
\* one password it was made from
hashPassword(password) == [bcrypt |-> password]

verifyPassword(password, passwordHash) == passwordHash = [bcrypt |-> password]

\* isLocked: its answer, and loginAttempts after it (lines 66-75); an entry
\* without lockedUntil, or with one that has passed, is deleted
isLocked(attempts, email, clock) ==
    IF ~Has(attempts, email) THEN [locked |-> FALSE, loginAttempts |-> attempts]
    ELSE IF attempts[email].lockedUntil # 0 /\ clock < attempts[email].lockedUntil
    THEN [locked |-> TRUE, loginAttempts |-> attempts]
    ELSE [locked |-> FALSE, loginAttempts |-> MapDelete(attempts, email)]

\* recordFailedAttempt (lines 80-89); an absent lockedUntil is 0
recordFailedAttempt(attempts, email, clock) ==
    LET entry == IF Has(attempts, email) THEN attempts[email]
                 ELSE [attempts |-> 0, lockedUntil |-> 0]
        count == entry.attempts + 1
    IN MapSet(attempts, email,
              [attempts |-> count,
               lockedUntil |-> IF count >= MAX_LOGIN_ATTEMPTS THEN clock + LOCKOUT_DURATION
                               ELSE entry.lockedUntil])

\* clearLoginAttempts
clearLoginAttempts(attempts, email) == MapDelete(attempts, email)

\* an AuthResult; the tokens are signed for the user id
Failure(error) == [success |-> FALSE, error |-> error, user |-> Null]

Success(user) ==
    [success |-> TRUE, error |-> "",
     user |-> [id |-> user.id, email |-> user.email, name |-> user.name]]

\* login (lines 170-209) with getUserByEmail of the route (lines 71-73):
\* the AuthResult and loginAttempts after the call
login(email, password, stored, attempts, clock) ==
    LET lock == isLocked(attempts, email, clock)
    IN IF lock.locked
       THEN [result |-> Failure("Account locked. Try again in 15 minutes."),
             loginAttempts |-> lock.loginAttempts]
       ELSE IF ~Has(stored, email)
       THEN [result |-> Failure("Invalid email or password"),
             loginAttempts |-> lock.loginAttempts]
       ELSE IF ~verifyPassword(password, stored[email].passwordHash)
       THEN [result |-> Failure("Invalid email or password"),
             loginAttempts |-> recordFailedAttempt(lock.loginAttempts, email, clock)]
       ELSE [result |-> Success(stored[email]),
             loginAttempts |-> clearLoginAttempts(lock.loginAttempts, email)]

HasUpper(s) == \E i \in 1..Len(s) : Contains(UpperLetters, CharAt(s, i))

HasDigit(s) == \E i \in 1..Len(s) : IsDigit(CharAt(s, i))

\* email.split('@')[0]
LocalPart(email) == LET NotAt(c) == c # "@" IN TakeWhile(email, NotAt)

\* register (lines 214-257) with createUser of the route (lines 50-53): the
\* AuthResult and users after the call; id is the uuid drawn for the user
register(email, password, name, id, stored) ==
    IF Len(password) < 12
    THEN [result |-> Failure("Password must be at least 12 characters"), users |-> stored]
    ELSE IF ~HasUpper(password)
    THEN [result |-> Failure("Password must contain at least one uppercase letter"),
          users |-> stored]
    ELSE IF ~HasDigit(password)
    THEN [result |-> Failure("Password must contain at least one number"), users |-> stored]
    ELSE LET user == [id |-> id, email |-> toLowerCase(email),
                      passwordHash |-> hashPassword(password), name |-> name]
         IN [result |-> Success(user), users |-> MapSet(stored, user.email, user)]

\* the reply of a route: the status code and the body
Reply(status, body) == [status |-> status, body |-> body]

\* POST /register (lines 36-66)
PostRegister(email, password, name, id, stored) ==
    IF Has(stored, email)
    THEN [reply |-> Reply(400, Failure("User already exists")), users |-> stored]
    ELSE LET r == register(email, password,
                           IF name = Null THEN LocalPart(email) ELSE name.value, id, stored)
         IN [reply |-> Reply(IF r.result.success THEN 200 ELSE 400, r.result),
             users |-> r.users]

\* POST /login (lines 68-85)
PostLogin(email, password, stored, attempts, clock) ==
    LET r == login(email, password, stored, attempts, clock)
    IN [reply |-> Reply(IF r.result.success THEN 200 ELSE 401, r.result),
        loginAttempts |-> r.loginAttempts]

\* the emails, passwords and user ids of the requests
EmailPool == {"a@x.io", "A@x.io"}

PasswordPool == {"Correct-Horse1", "Another-Pass22", "Short1A", "no-uppercase-1", "No-digits-here"}

UserIds == {"u1", "u2"}

\* the longest run of wrong passwords followed, and the last minute of the clock
MaxWrong == 6

MaxClock == 20

\* minutes between two readings of the clock
ClockStep == 5

(***************************************************************************)
(* routes/project.routes.ts                                                *)
(***************************************************************************)
\* projects.get(id): the position of the project in the Map, 0 if absent
Position(store, id) ==
    IF \E k \in 1..Len(store) : store[k].id = id
    THEN CHOOSE k \in 1..Len(store) : store[k].id = id
    ELSE 0

Denied_never(project, userId) == FALSE

\* project.userId !== request.user.userId
Denied(project, userId) == project.userId # userId

NotFound == Reply(404, [success |-> FALSE, error |-> "Project not found"])

AccessDenied == Reply(403, [success |-> FALSE, error |-> "Access denied"])

\* GET / (lines 12-23)
ListProjects(userId, store) ==
    LET Mine(p) == p.userId = userId
    IN [reply |-> Reply(200, [success |-> TRUE,
                              data |-> [projects |-> SelectSeqIdx(store, Mine, 1)]]),
        projects |-> store]

\* POST / (lines 26-47); id is the uuid drawn for the project
CreateProject(userId, name, description, id, clock, store) ==
    LET project == [id |-> id, userId |-> userId, name |-> name,
                    description |-> description, createdAt |-> clock, updatedAt |-> clock]
    IN [reply |-> Reply(200, [success |-> TRUE, data |-> project]),
        projects |-> Append(store, project)]

\* GET /:id (lines 50-65)
GetProject(userId, id, store) ==
    LET k == Position(store, id)
    IN [reply |-> IF k = 0 THEN NotFound
                  ELSE IF Denied(store[k], userId) THEN AccessDenied
                  ELSE Reply(200, [success |-> TRUE, data |-> store[k]]),
        projects |-> store]

\* PUT /:id (lines 68-88); an empty or absent name and an absent description
\* leave the field as it is
UpdateProject(userId, id, name, description, clock, store) ==
    LET k == Position(store, id)
    IN IF k = 0 THEN [reply |-> NotFound, projects |-> store]
       ELSE IF Denied(store[k], userId) THEN [reply |-> AccessDenied, projects |-> store]
       ELSE LET project ==
                    [store[k] EXCEPT
                        !.name = IF name # Null /\ name.value # "" THEN name ELSE @,
                        !.description = IF description # Null THEN description ELSE @,
                        !.updatedAt = clock]
            IN [reply |-> Reply(200, [success |-> TRUE, data |-> project]),
                projects |-> [store EXCEPT ![k] = project]]

\* DELETE /:id (lines 91-108)
DeleteProject(userId, id, store) ==
    LET k == Position(store, id)
    IN IF k = 0 THEN [reply |-> NotFound, projects |-> store]
       ELSE IF Denied(store[k], userId) THEN [reply |-> AccessDenied, projects |-> store]
       ELSE [reply |-> Reply(200, [success |-> TRUE, message |-> "Project deleted"]),
             projects |-> SubSeq(store, 1, k - 1) \o SubSeq(store, k + 1, Len(store))]

\* the ids, names and descriptions of the requests
ProjectIds == {"p1", "p2"}

NamePool == {Null, Str(""), Str("Tower"), Str("Plant")}

DescriptionPool == {Null, Str(""), Str("two floors")}

(***************************************************************************)
(* routes/upload.routes.ts and routes/takeoff.routes.ts                    *)
(***************************************************************************)
\* 50 * 1024 * 1024
MAX_FILE_SIZE == 52428800

\* a Buffer, by its length and the text of its first bytes, four at most
Buffer(length, head) == [length |-> length, head |-> head]

\* the size and magic byte checks both routes make before writing
\* (upload.routes.ts lines 32-40, takeoff.routes.ts lines 35-43): the error
\* of the reply, "" when the file is accepted
Rejection(fileBuffer) ==
    IF fileBuffer.length > MAX_FILE_SIZE THEN "File exceeds 50MB"
    ELSE IF fileBuffer.length >= 5 /\ fileBuffer.head # "%PDF" THEN "Invalid PDF format"
    ELSE ""

\* the rest of both handlers: the reply, and the upload directory after it;
\* fileId is the uuid drawn for the file
Store(fileBuffer, fileId, written) ==
    LET error == Rejection(fileBuffer)
    IN IF error # ""
       THEN [reply |-> Reply(400, [success |-> FALSE, error |-> error]), uploads |-> written]
       ELSE [reply |-> Reply(200, [success |-> TRUE,
                                   data |-> [fileId |-> fileId, size |-> fileBuffer.length]]),
             uploads |-> written \cup {[fileId |-> fileId, content |-> fileBuffer]}]

NoFile == Reply(400, [success |-> FALSE, error |-> "No file uploaded"])

\* POST /upload of upload.routes.ts (lines 19-67): body.file may be absent,
\* and so may its data
UploadFile(file, fileId, written) ==
    IF file = Null \/ file.data = Null THEN [reply |-> NoFile, uploads |-> written]
    ELSE Store(file.data, fileId, written)

\* POST /takeoff/upload of takeoff.routes.ts (lines 20-70): request.file()
\* may yield nothing
UploadTakeoff(data, fileId, written) ==
    IF data = Null THEN [reply |-> NoFile, uploads |-> written]
    ELSE Store(data.file, fileId, written)

\* the contents uploaded: empty, shorter than five bytes, five bytes, and at
\* and over the size limit, with and without the magic bytes
BufferPool ==
    { Buffer(0, ""), Buffer(3, "%PD"), Buffer(4, "%PDF"), Buffer(4, "ABCD"),
      Buffer(5, "%PDF"), Buffer(5, "ABCD"),
      Buffer(MAX_FILE_SIZE, "%PDF"), Buffer(MAX_FILE_SIZE, "ABCD"),
      Buffer(MAX_FILE_SIZE + 1, "%PDF"), Buffer(MAX_FILE_SIZE + 1, "ABCD") }

FileIds == {"f1", "f2"}

(***************************************************************************)
(* The calls                                                               *)
(***************************************************************************)
Init ==
    /\ pc = "idle"
    /\ op = "none"
    /\ args = Null
    /\ loc = Null
    /\ ret = Null
    /\ myManufacturers = Construct(<<"Daikin", "IEC">>)
    /\ catalog = MANUFACTURER_DATABASE
    /\ users = EmptyMap
    /\ loginAttempts = EmptyMap
    /\ now = 0
    /\ projects = <<>>
    /\ uploads = {}
    /\ hist = [wrong |-> [e \in EmailPool |-> 0],
               fifthAt |-> [e \in EmailPool |-> 0],
               registeredAs |-> EmptyMap]

CompareTakeoffs ==
    /\ pc = "idle"
    /\ \E equipment1 \in SeqsUpTo(DeltaPool, MaxEquip), equipment2 \in SeqsUpTo(DeltaPool, MaxEquip) :
         /\ op' = "compareTakeoffs"
         /\ args' = [equipment1 |-> equipment1, equipment2 |-> equipment2]
         /\ ret' = compareTakeoffs(equipment1, equipment2)
    /\ pc' = "returned"
    /\ UNCHANGED <<loc, myManufacturers, catalog, server>>

FindEquivalencies ==
    /\ pc = "idle"
    /\ \E equipment \in EquivEquipment, targetManufacturers \in TargetLists :
         /\ op' = "findEquivalencies"
         /\ args' = [equipment |-> equipment, targetManufacturers |-> targetManufacturers]
         /\ ret' = findEquivalencies(equipment, targetManufacturers, myManufacturers)
         /\ catalog' = Receiver(catalog, _mapCategory(equipment.category))
    /\ pc' = "returned"
    /\ UNCHANGED <<loc, myManufacturers, server>>

\* _calculateMatch, entered: lines 379-381
CalcBegin ==
    /\ pc = "idle"
    /\ \E equipment \in CalcEquipment, candidate \in CalcCandidates :
         /\ op' = "_calculateMatch"
         /\ args' = [equipment |-> equipment, candidate |-> candidate,
                     specs |-> _parseSpecs(equipment)]
    /\ loc' = [i |-> 0, acc |-> CalcStart]
    /\ ret' = Null
    /\ pc' = "calc"
    /\ UNCHANGED <<myManufacturers, catalog, server>>

\* one iteration of the loop over candidate.specifications: lines 384-418
CalcStep ==
    /\ pc = "calc"
    /\ loc.i < Len(args.candidate.specifications)
    /\ loc' = [i |-> loc.i + 1,
               acc |-> CompareStep(loc.acc, args.candidate.specifications[loc.i + 1], args.specs)]
    /\ UNCHANGED <<pc, op, args, ret, myManufacturers, catalog, server>>

\* after the loop: lines 420-444
CalcEnd ==
    /\ pc = "calc"
    /\ loc.i = Len(args.candidate.specifications)
    /\ ret' = CalcFinish(args.equipment, args.candidate, args.specs, loc.acc)
    /\ pc' = "returned"
    /\ UNCHANGED <<op, args, loc, myManufacturers, catalog, server>>

CorrelateEquipmentToSpecs ==
    /\ pc = "idle"
    /\ \E equipment \in SeqsUpTo(SpecEquipmentPool, MaxEquip),
          specSections \in SeqsUpTo(SectionPool, MaxSections) :
         /\ op' = "correlateEquipmentToSpecs"
         /\ args' = [equipment |-> equipment, specSections |-> specSections]
         /\ ret' = correlateEquipmentToSpecs(equipment, specSections)
    /\ pc' = "returned"
    /\ UNCHANGED <<loc, myManufacturers, catalog, server>>

FindSpecGaps ==
    /\ pc = "idle"
    /\ \E equipment \in SeqsUpTo(SpecEquipmentPool, MaxEquip),
          specSections \in SeqsUpTo(SectionPool, MaxSections) :
         /\ op' = "findSpecGaps"
         /\ args' = [equipment |-> equipment, specSections |-> specSections]
         /\ ret' = findSpecGaps(equipment, specSections)
    /\ pc' = "returned"
    /\ UNCHANGED <<loc, myManufacturers, catalog, server>>

\* the summary percentage of compareTakeoffs for lists too long to enumerate,
\* given by their counts: an old list of total records (equipment1.length || 1)
\* and changedItems tags that are added, removed or changed
Summarize ==
    /\ pc = "idle"
    /\ \E total \in 1..MaxRecords, changedItems \in 0..(2 * MaxRecords) :
         /\ op' = "summary"
         /\ args' = [changedItems |-> changedItems, total |-> total]
         /\ ret' = [totalChangePercent |-> RoundPercent(changedItems, total)]
    /\ pc' = "returned"
    /\ UNCHANGED <<loc, myManufacturers, catalog, server>>

GenerateComparison ==
    /\ pc = "idle"
    /\ \E original \in EquivEquipment, targetManufacturer \in TargetNames :
         /\ op' = "generateComparison"
         /\ args' = [original |-> original, targetManufacturer |-> targetManufacturer]
         /\ ret' = generateComparison(original, targetManufacturer, myManufacturers)
         /\ catalog' = Receiver(catalog, _mapCategory(original.category))
    /\ pc' = "returned"
    /\ UNCHANGED <<loc, myManufacturers, server>>

\* POST /register; hist.registeredAs keeps the email and password of the
\* last registration that succeeded, by stored key
Register ==
    /\ pc = "idle"
    /\ \E email \in EmailPool, password \in PasswordPool, name \in {Null, Str("Ann")},
          id \in UserIds :
         LET r == PostRegister(email, password, name, id, users)
         IN /\ op' = "register"
            /\ args' = [email |-> email, password |-> password, name |-> name]
            /\ ret' = r.reply
            /\ users' = r.users
            /\ hist' = IF r.reply.body.success
                       THEN [hist EXCEPT !.registeredAs =
                                MapSet(@, toLowerCase(email),
                                       [email |-> email, password |-> password])]
                       ELSE hist
    /\ pc' = "returned"
    /\ UNCHANGED <<loc, myManufacturers, catalog, loginAttempts, now, projects, uploads>>

\* POST /login; hist.wrong counts the wrong passwords given in a row for the
\* email of an existing user, hist.fifthAt is the minute of the fifth
Login ==
    /\ pc = "idle"
    /\ \E email \in EmailPool, password \in PasswordPool :
         LET r == PostLogin(email, password, users, loginAttempts, now)
             wrong == Has(users, email)
                        /\ ~verifyPassword(password, users[email].passwordHash)
         IN /\ hist.wrong[email] < MaxWrong
            /\ op' = "login"
            /\ args' = [email |-> email, password |-> password]
            /\ ret' = r.reply
            /\ loginAttempts' = r.loginAttempts
            /\ hist' = IF r.reply.body.success
                       THEN [hist EXCEPT !.wrong[email] = 0]
                       ELSE IF wrong
                       THEN [hist EXCEPT !.wrong[email] = @ + 1,
                                         !.fifthAt[email] =
                                            IF hist.wrong[email] + 1 = MAX_LOGIN_ATTEMPTS
                                            THEN now ELSE @]
                       ELSE hist
    /\ pc' = "returned"
    /\ UNCHANGED <<loc, myManufacturers, catalog, users, now, projects, uploads>>

\* time passes between two requests
Tick ==
    /\ pc = "idle"
    /\ now + ClockStep <= MaxClock
    /\ now' = now + ClockStep
    /\ UNCHANGED <<pc, op, args, loc, ret, myManufacturers, catalog, users, loginAttempts,
                   projects, uploads, hist>>

\* the requests to the project routes, made with the token of userId
GetProjects ==
    /\ pc = "idle"
    /\ \E userId \in UserIds :
         LET r == ListProjects(userId, projects)
         IN /\ op' = "GET /projects"
            /\ args' = [userId |-> userId]
            /\ ret' = r.reply
            /\ projects' = r.projects
    /\ pc' = "returned"
    /\ UNCHANGED <<loc, myManufacturers, catalog, users, loginAttempts, now, uploads, hist>>

PostProject ==
    /\ pc = "idle"
    /\ \E userId \in UserIds, name \in NamePool, description \in DescriptionPool,
          id \in ProjectIds \ {projects[k].id : k \in 1..Len(projects)} :
         LET r == CreateProject(userId, name, description, id, now, projects)
         IN /\ op' = "POST /projects"
            /\ args' = [userId |-> userId, name |-> name, description |-> description]
            /\ ret' = r.reply
            /\ projects' = r.projects
    /\ pc' = "returned"
    /\ UNCHANGED <<loc, myManufacturers, catalog, users, loginAttempts, now, uploads, hist>>

GetProjectById ==
    /\ pc = "idle"
    /\ \E userId \in UserIds, id \in ProjectIds :
         LET r == GetProject(userId, id, projects)
         IN /\ op' = "GET /projects/:id"
            /\ args' = [userId |-> userId, id |-> id]
            /\ ret' = r.reply
            /\ projects' = r.projects
    /\ pc' = "returned"
    /\ UNCHANGED <<loc, myManufacturers, catalog, users, loginAttempts, now, uploads, hist>>

PutProject ==
    /\ pc = "idle"
    /\ \E userId \in UserIds, id \in ProjectIds, name \in NamePool,
          description \in DescriptionPool :
         LET r == UpdateProject(userId, id, name, description, now, projects)
         IN /\ op' = "PUT /projects/:id"
            /\ args' = [userId |-> userId, id |-> id, name |-> name,
                        description |-> description]
            /\ ret' = r.reply
            /\ projects' = r.projects
    /\ pc' = "returned"
    /\ UNCHANGED <<loc, myManufacturers, catalog, users, loginAttempts, now, uploads, hist>>

DeleteProjectById ==
    /\ pc = "idle"
    /\ \E userId \in UserIds, id \in ProjectIds :
         LET r == DeleteProject(userId, id, projects)
         IN /\ op' = "DELETE /projects/:id"
            /\ args' = [userId |-> userId, id |-> id]
            /\ ret' = r.reply
            /\ projects' = r.projects
    /\ pc' = "returned"
    /\ UNCHANGED <<loc, myManufacturers, catalog, users, loginAttempts, now, uploads, hist>>

\* POST /upload
PostUpload ==
    /\ pc = "idle"
    /\ \E file \in {Null, [data |-> Null]} \cup {[data |-> b] : b \in BufferPool},
          fileId \in FileIds \ {u.fileId : u \in uploads} :
         LET r == UploadFile(file, fileId, uploads)
         IN /\ op' = "POST /upload"
            /\ args' = [file |-> file]
            /\ ret' = r.reply
            /\ uploads' = r.uploads
    /\ pc' = "returned"
    /\ UNCHANGED <<loc, myManufacturers, catalog, users, loginAttempts, now, projects, hist>>

\* POST /takeoff/upload
PostTakeoffUpload ==
    /\ pc = "idle"
    /\ \E data \in {Null} \cup {[file |-> b] : b \in BufferPool},
          fileId \in FileIds \ {u.fileId : u \in uploads} :
         LET r == UploadTakeoff(data, fileId, uploads)
         IN /\ op' = "POST /takeoff/upload"
            /\ args' = [file |-> data]
            /\ ret' = r.reply
            /\ uploads' = r.uploads
    /\ pc' = "returned"
    /\ UNCHANGED <<loc, myManufacturers, catalog, users, loginAttempts, now, projects, hist>>

\* new EquivalencyService(names): the calls that follow are made on a
\* service with these home manufacturers
NewService ==
    /\ pc = "idle"
    /\ \E names \in HomeLists : myManufacturers' = Construct(names)
    /\ UNCHANGED <<pc, op, args, loc, ret, catalog, server>>

\* the caller drops the result; nothing of a call outlives it
Return ==
    /\ pc = "returned"
    /\ pc' = "idle"
    /\ op' = "none"
    /\ args' = Null
    /\ loc' = Null
    /\ ret' = Null
    /\ UNCHANGED <<myManufacturers, catalog, server>>

NextDelta == CompareTakeoffs \/ Summarize \/ Return

SpecDelta == Init /\ [][NextDelta]_vars

\* calls of findEquivalencies
NextEquiv == FindEquivalencies \/ Return

SpecEquiv == Init /\ [][NextEquiv]_vars

\* calls of findEquivalencies on services with different home manufacturers
NextHome == NewService \/ FindEquivalencies \/ Return

SpecHome == Init /\ [][NextHome]_vars

\* calls of _calculateMatch, one field at a time
NextCalc == CalcBegin \/ CalcStep \/ CalcEnd \/ Return

SpecCalc == Init /\ [][NextCalc]_vars

\* calls of correlateEquipmentToSpecs
NextCorrelate == CorrelateEquipmentToSpecs \/ Return

SpecCorrelate == Init /\ [][NextCorrelate]_vars

\* calls of findSpecGaps
NextGaps == FindSpecGaps \/ Return

SpecGaps == Init /\ [][NextGaps]_vars

\* calls of both functions of the spec service
NextSections == CorrelateEquipmentToSpecs \/ FindSpecGaps \/ Return

SpecSections == Init /\ [][NextSections]_vars

\* calls of the two engines that look the category up in a table
NextEngines == FindEquivalencies \/ CorrelateEquipmentToSpecs \/ Return

SpecEngines == Init /\ [][NextEngines]_vars

\* calls of generateComparison
NextComparison == GenerateComparison \/ Return

SpecComparison == Init /\ [][NextComparison]_vars

\* requests to the auth routes
NextAuth == Register \/ Login \/ Tick \/ Return

SpecAuth == Init /\ [][NextAuth]_vars

\* requests to the project routes
NextProjects == GetProjects \/ PostProject \/ GetProjectById \/ PutProject
             \/ DeleteProjectById \/ Return

SpecProjects == Init /\ [][NextProjects]_vars

\* requests to the two upload routes
NextUploads == PostUpload \/ PostTakeoffUpload \/ Return

SpecUploads == Init /\ [][NextUploads]_vars

\* calls of the three engines in any order: compareTakeoffs,
\* correlateEquipmentToSpecs, findSpecGaps and findEquivalencies
NextCalls == CompareTakeoffs \/ CorrelateEquipmentToSpecs \/ FindSpecGaps
          \/ FindEquivalencies \/ Return

SpecCalls == Init /\ [][NextCalls]_vars

\* any call of the four services
NextAny == CompareTakeoffs \/ Summarize \/ FindEquivalencies \/ CalcBegin \/ CalcStep \/ CalcEnd
        \/ CorrelateEquipmentToSpecs \/ FindSpecGaps \/ Return

SpecAny == Init /\ [][NextAny]_vars

(***************************************************************************)
(* Claims                                                                  *)
(***************************************************************************)
UpperTags(list) == {toUpperCase(list[i].tag) : i \in 1..Len(list)}

\* C1: compareTakeoffs puts every uppercased tag of either list in exactly one
\* of added, removed, changed, unchanged: only in new -> added, only in old ->
\* removed, in both -> changed or unchanged; the four sets are pairwise
\* disjoint and their union is the union of the tags of both lists.
C1_TagPartition ==
    (pc = "returned" /\ op = "compareTakeoffs") =>
        LET old == UpperTags(args.equipment1)
            new == UpperTags(args.equipment2)
            A == UpperTags(ret.added)
            R == UpperTags(ret.removed)
            C == {ret.changed[i].tag : i \in 1..Len(ret.changed)}
            U == UpperTags(ret.unchanged)
        IN /\ A = new \ old
           /\ R = old \ new
           /\ C \cup U = old \cap new
           /\ A \cap R = {} /\ A \cap C = {} /\ A \cap U = {}
           /\ R \cap C = {} /\ R \cap U = {} /\ C \cap U = {}
           /\ A \cup R \cup C \cup U = old \cup new
           /\ Len(ret.added) + Len(ret.removed) + Len(ret.changed) + Len(ret.unchanged)
                = Cardinality(old \cup new)

\* a call with an added, a removed and a changed tag, the changed one matched
\* across different spellings of the tag
C1_Witness ==
    /\ pc = "returned" /\ op = "compareTakeoffs"
    /\ Len(ret.added) = 1 /\ Len(ret.removed) = 1 /\ Len(ret.changed) = 1
    /\ ret.changed[1].old.tag # ret.changed[1].new.tag

\* the matches a returned call hands out
ReturnedMatches ==
    IF pc = "returned" /\ op = "findEquivalencies"
    THEN Range(ret.matches) \cup (IF ret.bestMatch = Null THEN {} ELSE {ret.bestMatch})
    ELSE IF pc = "returned" /\ op = "_calculateMatch" THEN {ret}
    ELSE {}

\* the tolerance table as the specification states it, in percent
StatedTolerance(name) ==
    CASE name \in {"voltage", "efficiency"} -> 5
      [] name \in {"capacity", "cooling", "heating"} -> 10
      [] name = "motor" -> 15
      [] OTHER -> 10

\* the parsed value of the equipment for a candidate field, if any
HasParsed(equipment, spec) == toLowerCase(spec.name) \in DOMAIN _parseSpecs(equipment)

ParsedFor(equipment, spec) == _parseSpecs(equipment)[toLowerCase(spec.name)]

\* |o - c| / o compared with times * tolerance, for numbers o > 0 and c
AbsDiff(o, c) == IF o >= c THEN o - c ELSE c - o

\* the stated band of a field: 15, 10, 5 or -10 hundredths
StatedIncrement(o, c, name) ==
    LET t == StatedTolerance(name)
        comparable == o.k = "num" /\ c.k = "num" /\ o.v > 0
    IN IF o.k = "num" /\ c.k = "num" /\ o.v = c.v THEN 15
       ELSE IF comparable /\ AbsDiff(o.v, c.v) * 100 < t * o.v THEN 10
       ELSE IF comparable /\ AbsDiff(o.v, c.v) * 100 < 2 * t * o.v THEN 5
       ELSE 0 - 10

\* a double that is the decimal e / 100 up to rounding (to within 10^-5)
NearHundredths(d, e) ==
    LET coarse == 100 * (d.h \div 256) - e * 2^20
    IN (d.s = 1 \/ e = 0) /\ coarse <= 200 /\ coarse >= 0 - 200

\* C2: every matchScore is a number with 0 <= matchScore <= 1, also for a
\* parsed value of 0, a size text without a usable number and a candidate
\* value that is not numeric.
C2_ScoreBounds ==
    \A m \in ReturnedMatches :
        /\ m.matchScore.s \in {1, -1} /\ m.matchScore.h \in Nat /\ m.matchScore.l \in 0..(Limb - 1)
        /\ ~FLess(m.matchScore, DZero)
        /\ ~FGreater(m.matchScore, D100)

\* a score clamped at 0 for an equipment with a parsed 0 and a parsed NaN
\* against a candidate with a non-numeric value
C2_Witness ==
    /\ pc = "returned" /\ op = "_calculateMatch"
    /\ ret.matchScore = DZero
    /\ \E n \in DOMAIN args.specs : args.specs[n] = Num(0)
    /\ \E n \in DOMAIN args.specs : args.specs[n] = NaN
    /\ \E i \in 1..Len(ret.differences) : ret.differences[i].matchedValue[1].k = "str"
    /\ Len(ret.differences) >= 4

\* C3: isEquivalent holds iff no difference is critical and at least 2
\* candidate fields were matched against parsed values; a field whose percent
\* difference is >= 2 x tolerance rules equivalence out.
C3_Equivalent ==
    \A m \in ReturnedMatches :
        LET fields == m.matchedEquipment.specifications
            matched == {i \in 1..Len(fields) : HasParsed(m.originalEquipment, fields[i])}
            Far(i) == LET o == ParsedFor(m.originalEquipment, fields[i])
                          c == fields[i].value
                          t == StatedTolerance(toLowerCase(fields[i].name))
                      IN /\ o.k = "num" /\ c.k = "num"
                         /\ \/ (o.v = 0 /\ c.v # 0)
                            \/ (o.v > 0 /\ AbsDiff(o.v, c.v) * 100 >= 2 * t * o.v)
        IN /\ m.isEquivalent <=>
                /\ \A i \in 1..Len(m.differences) : m.differences[i].severity # "critical"
                /\ Cardinality(matched) >= 2
           /\ (\E i \in matched : Far(i)) => ~m.isEquivalent

\* two matched fields, one equal and one exactly at 2 x tolerance: not equivalent
C3_Witness ==
    /\ pc = "returned" /\ op = "_calculateMatch"
    /\ ~ret.isEquivalent
    /\ Len(ret.differences) = 2
    /\ \E i \in 1..2 :
          LET f == args.candidate.specifications[i]
              o == ParsedFor(args.equipment, f)
          IN o.k = "num" /\ o.v > 0 /\ f.value.k = "num"
             /\ AbsDiff(o.v, f.value.v) * 100 = 2 * StatedTolerance(toLowerCase(f.name)) * o.v
    /\ \E i \in 1..2 :
          args.candidate.specifications[i].value = ParsedFor(args.equipment, args.candidate.specifications[i])

\* C4: a field with a parsed value adds 0.15 when equal, 0.10 when pd < t,
\* 0.05 when t <= pd < 2t (both minor, isBetter = cand > orig) and subtracts
\* 0.10 when pd >= 2t (critical, isBetter false); pd = t is in the 0.05 band
\* and pd = 2t is critical.
C4_Step ==
    LET f == args.candidate.specifications[loc'.i]
        name == toLowerCase(f.name)
        o == args.specs[name]
        c == f.value
        diff == loc'.acc.differences[Len(loc'.acc.differences)]
        inc == StatedIncrement(o, c, name)
    IN (name \in DOMAIN args.specs /\ o.k = "num" /\ c.k = "num") =>
          /\ Len(loc'.acc.differences) = Len(loc.acc.differences) + 1
          /\ inc = 15 => loc'.acc.score = FAdd(loc.acc.score, D015)
          /\ inc = 10 => /\ loc'.acc.score = FAdd(loc.acc.score, D010)
                         /\ diff.severity = "minor" /\ diff.isBetter = (c.v > o.v)
          /\ inc = 5 => /\ loc'.acc.score = FAdd(loc.acc.score, D005)
                        /\ diff.severity = "minor" /\ diff.isBetter = (c.v > o.v)
          /\ inc = 0 - 10 => /\ loc'.acc.score = FSub(loc.acc.score, D010)
                             /\ diff.severity = "critical" /\ diff.isBetter = FALSE

C4_Bands == [][(pc = "calc" /\ pc' = "calc") => C4_Step]_vars

\* the loop has taken a field with pd = t, then a field with pd = 2t
C4_Witness ==
    /\ pc = "calc" /\ loc.i = 2
    /\ LET f == args.candidate.specifications[1]
           o == ParsedFor(args.equipment, f)
       IN /\ HasParsed(args.equipment, f) /\ o.k = "num" /\ o.v > 0 /\ f.value.k = "num"
          /\ AbsDiff(o.v, f.value.v) * 100 = StatedTolerance(toLowerCase(f.name)) * o.v
          /\ loc.acc.differences[1].severity = "minor"
    /\ LET f == args.candidate.specifications[2]
           o == ParsedFor(args.equipment, f)
       IN /\ HasParsed(args.equipment, f) /\ o.k = "num" /\ o.v > 0 /\ f.value.k = "num"
          /\ AbsDiff(o.v, f.value.v) * 100 = 2 * StatedTolerance(toLowerCase(f.name)) * o.v
          /\ loc.acc.differences[2].severity = "critical"

RECURSIVE SumOver(_, _)
SumOver(f, n) == IF n = 0 THEN 0 ELSE f[n] + SumOver(f, n - 1)

\* the stated score of a match, in hundredths
StatedScore(m) ==
    LET fields == m.matchedEquipment.specifications
        eq == m.originalEquipment
        inc == [i \in 1..Len(fields) |->
                  IF HasParsed(eq, fields[i])
                  THEN StatedIncrement(ParsedFor(eq, fields[i]), fields[i].value,
                                       toLowerCase(fields[i].name))
                  ELSE IF toLowerCase(fields[i].name) \in {"cooling", "capacity", "voltage", "motor"}
                  THEN 0 - 10
                  ELSE 0]
        bonus == IF m.matchedEquipment.efficiencyRating # "" /\ FGreater(eq.confidence, D070)
                 THEN 5 ELSE 0
        raw == 50 + SumOver(inc, Len(fields)) + bonus
    IN IF raw < 0 THEN 0 ELSE IF raw > 100 THEN 100 ELSE raw

\* C5: matchScore is the clamp to [0,1] of 0.5 plus the increments of the
\* matched fields, minus 0.10 per cooling, capacity, voltage or motor field
\* without a parsed value, plus 0.05 iff the candidate has an efficiency
\* rating and the confidence is strictly greater than 0.7 (as doubles: equal
\* up to the rounding of the sums).
C5_ScoreFormula ==
    \A m \in ReturnedMatches : NearHundredths(m.matchScore, StatedScore(m))

\* a score with a matched field, a missing critical field and the bonus
C5_Witness ==
    /\ pc = "returned" /\ op = "_calculateMatch"
    /\ Len(ret.differences) = 1
    /\ Len(args.candidate.specifications) = 2
    /\ \E i \in 1..2 : /\ ~HasParsed(args.equipment, args.candidate.specifications[i])
                       /\ _isCritical(args.candidate.specifications[i].name)
    /\ args.candidate.efficiencyRating # ""
    /\ FGreater(args.equipment.confidence, D070)
    /\ StatedScore(ret) = 55

\* the position of a product in the catalog
CatalogIndex(p) == CHOOSE i \in 1..Len(MANUFACTURER_DATABASE) : MANUFACTURER_DATABASE[i] = p

\* C6: matches is exactly the filtered candidates scoring strictly above 0.3,
\* by non-increasing score, equal scores in catalog order; bestMatch is its
\* first element or null, totalMatches its length.
C6_Ranking ==
    (pc = "returned" /\ op = "findEquivalencies") =>
        LET cands == Candidates(_mapCategory(args.equipment.category), args.targetManufacturers)
            Score(c) == _calculateMatch(args.equipment, c, _parseSpecs(args.equipment))
            above == {c \in Range(cands) : FGreater(Score(c).matchScore, D030)}
            ms == ret.matches
        IN /\ {ms[i].matchedEquipment : i \in 1..Len(ms)} = above
           /\ Len(ms) = Cardinality(above)
           /\ \A i \in 1..Len(ms) : ms[i] = Score(ms[i].matchedEquipment)
           /\ \A i, j \in 1..Len(ms) : i < j =>
                 /\ ~FLess(ms[i].matchScore, ms[j].matchScore)
                 /\ ms[i].matchScore = ms[j].matchScore =>
                       CatalogIndex(ms[i].matchedEquipment) < CatalogIndex(ms[j].matchedEquipment)
           /\ ret.bestMatch = (IF Len(ms) = 0 THEN Null ELSE ms[1])
           /\ ret.totalMatches = Len(ms)

\* a candidate scoring exactly 0.3 is left out while two others tie and rank
\* in catalog order
C6_Witness ==
    /\ pc = "returned" /\ op = "findEquivalencies"
    /\ Len(ret.matches) >= 2
    /\ ret.matches[1].matchScore = ret.matches[2].matchScore
    /\ CatalogIndex(ret.matches[1].matchedEquipment) < CatalogIndex(ret.matches[2].matchedEquipment)
    /\ \E c \in Range(Candidates(_mapCategory(args.equipment.category), args.targetManufacturers)) :
          _calculateMatch(args.equipment, c, _parseSpecs(args.equipment)).matchScore = D030

\* the gaps of a returned call of findSpecGaps
ReturnedGaps == IF pc = "returned" /\ op = "findSpecGaps" /\ ~ret.threw THEN ret.value ELSE <<>>

\* the buckets of a returned call of correlateEquipmentToSpecs
ReturnedBuckets ==
    IF pc = "returned" /\ op = "correlateEquipmentToSpecs" /\ ~ret.threw THEN ret.value ELSE <<>>

StatedRank(severity) == CASE severity = "high" -> 0 [] severity = "medium" -> 1 [] severity = "low" -> 2

\* C7: the gap list of findSpecGaps is non-decreasing in severity rank
\* (high = 0, medium = 1, low = 2).
C7_SeverityOrder ==
    \A i, j \in 1..Len(ReturnedGaps) :
        i < j => StatedRank(ReturnedGaps[i].severity) <= StatedRank(ReturnedGaps[j].severity)

\* a low and a medium gap were found before the high ones and all are returned
C7_Witness ==
    /\ pc = "returned" /\ op = "findSpecGaps" /\ ~ret.threw
    /\ Len(args.equipment) = 2
    /\ ~FLess(args.equipment[1].confidence, D050)
    /\ FLess(args.equipment[2].confidence, D050)
    /\ Len(ret.value) = 4
    /\ {ret.value[i].severity : i \in 1..4} = {"high", "medium", "low"}

\* a record has no keyword match in any of the sections
NoKeywordMatch(eq, specSections) ==
    \A j \in 1..Len(specSections) :
        LET text == toLowerCase(specSections[j].reference \o " " \o specSections[j].content)
        IN \A kw \in Range(KeywordsOf(eq.category).list) : ~includes(text, kw)

\* C8: findSpecGaps emits exactly one 'No matching spec section found' gap
\* for every record with empty specReferences and no keyword match in any
\* section, none for any other record; medium below confidence 0.5, low
\* otherwise.
C8_NoSpecGaps ==
    (pc = "returned" /\ op = "findSpecGaps" /\ ~ret.threw) =>
        \A tag \in {args.equipment[i].tag : i \in 1..Len(args.equipment)} :
            \A severity \in {"medium", "low"} :
                Cardinality({i \in 1..Len(ret.value) :
                                /\ ret.value[i].issue = "No matching spec section found"
                                /\ ret.value[i].equipmentTag = tag
                                /\ ret.value[i].severity = severity})
                = Cardinality({i \in 1..Len(args.equipment) :
                                /\ args.equipment[i].tag = tag
                                /\ Len(args.equipment[i].specs_references) = 0
                                /\ NoKeywordMatch(args.equipment[i], args.specSections)
                                /\ severity = (IF FLess(args.equipment[i].confidence, D050)
                                               THEN "medium" ELSE "low")})

\* the order of section numbers: character by character, space before digits
SectionBefore(a, b) ==
    \E k \in 1..(Len(b) + 1) :
        /\ k <= Len(a) + 1
        /\ SubSeq(a, 1, k - 1) = SubSeq(b, 1, k - 1)
        /\ \/ (k = Len(a) + 1 /\ k <= Len(b))
           \/ (k <= Len(a) /\ k <= Len(b) /\ CharRank(CharAt(a, k)) < CharRank(CharAt(b, k)))

\* C9: every bucket of correlateEquipmentToSpecs holds at least one record
\* and the buckets are in strictly ascending order of section number.
C9_Buckets ==
    /\ \A i \in 1..Len(ReturnedBuckets) : Len(ReturnedBuckets[i].equipment) >= 1
    /\ \A i, j \in 1..Len(ReturnedBuckets) :
          i < j => SectionBefore(ReturnedBuckets[i].sectionNumber, ReturnedBuckets[j].sectionNumber)

\* two sections given in descending order of section number, each matched
\* by a record: two buckets come back in ascending order
C9_Witness ==
    /\ pc = "returned" /\ op = "correlateEquipmentToSpecs" /\ ~ret.threw
    /\ Len(ret.value) = 2
    /\ Len(args.specSections) = 2
    /\ extractSectionNumber(args.specSections[1].reference) = Str(ret.value[2].sectionNumber)
    /\ extractSectionNumber(args.specSections[2].reference) = Str(ret.value[1].sectionNumber)

\* C10: a record is in the bucket of section number S iff some given section
\* whose reference normalises to S contains, ignoring case, in its reference
\* followed by its content a keyword of the record's category; a record
\* whose category has no keywords is in no bucket.
C10_Placement ==
    (pc = "returned" /\ op = "correlateEquipmentToSpecs" /\ ~ret.threw) =>
        LET number == [j \in 1..Len(args.specSections) |->
                          extractSectionNumber(args.specSections[j].reference)]
            numbers == {number[j].value : j \in {k \in 1..Len(args.specSections) : number[k] # Null}}
        IN /\ \A b \in Range(ret.value) : b.sectionNumber \in numbers
           /\ \A i \in 1..Len(args.equipment) :
                 \A S \in numbers :
                     (\E b \in Range(ret.value) :
                         b.sectionNumber = S /\ args.equipment[i] \in Range(b.equipment))
                     <=> (\E j \in 1..Len(args.specSections) :
                             /\ number[j] = Str(S)
                             /\ ~NoKeywordMatch(args.equipment[i], <<args.specSections[j]>>))

\* one record in two buckets, in one of them through a keyword that spans
\* the end of the reference and the start of the content
C10_Witness ==
    /\ pc = "returned" /\ op = "correlateEquipmentToSpecs" /\ ~ret.threw
    /\ Len(ret.value) = 2
    /\ \E i \in 1..Len(args.equipment) :
          /\ \A b \in Range(ret.value) : args.equipment[i] \in Range(b.equipment)
          /\ \E j \in 1..Len(args.specSections) :
                /\ ~NoKeywordMatch(args.equipment[i], <<args.specSections[j]>>)
                /\ \A kw \in Range(KeywordsOf(args.equipment[i].category).list) :
                      /\ ~includes(toLowerCase(args.specSections[j].reference), kw)
                      /\ ~includes(toLowerCase(args.specSections[j].content), kw)

\* the records of a list have pairwise different tags, ignoring case
UniqueTags(list) == Cardinality(UpperTags(list)) = Len(list)

\* C11: comparing a list whose tags are unique ignoring case with itself
\* gives no added, removed or changed entry, one unchanged entry per record
\* and a totalChangePercent of 0.
C11_SelfDiff ==
    (/\ pc = "returned" /\ op = "compareTakeoffs"
     /\ args.equipment1 = args.equipment2 /\ UniqueTags(args.equipment1)) =>
        /\ ret.added = <<>> /\ ret.removed = <<>> /\ ret.changed = <<>>
        /\ Len(ret.unchanged) = Len(args.equipment1)
        /\ ret.unchanged = args.equipment1
        /\ ret.summary.totalChangePercent = 0

\* a list of two records with different tags compared with itself
C11_Witness ==
    /\ pc = "returned" /\ op = "compareTakeoffs"
    /\ args.equipment1 = args.equipment2 /\ UniqueTags(args.equipment1)
    /\ Len(args.equipment1) = 2
    /\ Len(ret.unchanged) = 2

\* the decimal value, in hundredths, of the confidence literals
Hundredths(d) ==
    CASE d = D005 -> 5 [] d = D010 -> 10 [] d = D020 -> 20 [] d = D030 -> 30
      [] d = D050 -> 50 [] d = D060 -> 60 [] d = D070 -> 70 [] d = D080 -> 80
      [] d = D090 -> 90
      [] d = D100 -> 100

\* the (type, value) pairs of a record, first occurrences in order
SizePairs(eq) == Dedup(MapSeq(eq.sizes, LAMBDA s : <<s.type, s.value>>))

\* the difference list as the specification states it
StatedDifferences(eq1, eq2) ==
    LET pairs1 == SizePairs(eq1)
        pairs2 == SizePairs(eq2)
        Added(q) == q \notin Range(pairs1)
        Removed(q) == q \notin Range(pairs2)
        Key(q) == q[1] \o ":" \o q[2]
        d == Hundredths(eq1.confidence) - Hundredths(eq2.confidence)
    IN [i \in 1..Len(SelectSeq(pairs2, Added)) |->
            <<"Size added", Key(SelectSeq(pairs2, Added)[i])>>]
       \o [i \in 1..Len(SelectSeq(pairs1, Removed)) |->
            <<"Size removed", Key(SelectSeq(pairs1, Removed)[i])>>]
       \o (IF d > 20 \/ d < -20
           THEN << <<"Confidence changed", <<eq1.confidence, eq2.confidence>> >> >> ELSE <<>>)
       \o (IF eq1.page_number # eq2.page_number
           THEN << <<"Page changed", <<eq1.page_number, eq2.page_number>> >> >> ELSE <<>>)
       \o (IF eq1.type # eq2.type
           THEN << <<"Type changed", <<eq1.type, eq2.type>> >> >> ELSE <<>>)

\* C12: for a tag in both lists the difference list is one 'Size added' per
\* (type, value) pair of the new record that the old one lacks, one 'Size
\* removed' per pair of the old record that the new one lacks, a confidence
\* entry iff the confidences differ by more than 0.2 (exactly 0.2 is not
\* flagged), a page entry iff the pages differ, a type entry iff the types
\* differ; distinct size pairs are never taken for the same pair; the tag is
\* changed iff the list is non-empty and unchanged otherwise.
C12_Differences ==
    (pc = "returned" /\ op = "compareTakeoffs") =>
        \A tag \in UpperTags(args.equipment1) \cap UpperTags(args.equipment2) :
            LET eq1 == MapGet(args.equipment1, tag)
                eq2 == MapGet(args.equipment2, tag)
                stated == StatedDifferences(eq1, eq2)
            IN IF stated # <<>>
               THEN \E i \in 1..Len(ret.changed) :
                       /\ ret.changed[i].tag = tag
                       /\ ret.changed[i].differences = stated
               ELSE \E i \in 1..Len(ret.unchanged) : toUpperCase(ret.unchanged[i].tag) = tag

\* 100 * changedItems / total rounded to the nearest integer, halves up
StatedPercent(changedItems, total) == (200 * changedItems + total) \div (2 * total)

\* C13: the four summary counts are the lengths of the four lists and
\* totalChangePercent is round(100 * (added + removed + changed) / max(1, |old|));
\* two empty lists give all zeros, and an empty old list gives 100 * |added|.
C13_Summary ==
    /\ (pc = "returned" /\ op = "compareTakeoffs") =>
          LET changedItems == Len(ret.added) + Len(ret.removed) + Len(ret.changed)
              total == IF Len(args.equipment1) > 1 THEN Len(args.equipment1) ELSE 1
          IN /\ ret.summary.addedCount = Len(ret.added)
             /\ ret.summary.removedCount = Len(ret.removed)
             /\ ret.summary.changedCount = Len(ret.changed)
             /\ ret.summary.unchangedCount = Len(ret.unchanged)
             /\ ret.summary.totalChangePercent = StatedPercent(changedItems, total)
             /\ (args.equipment1 = <<>> /\ args.equipment2 = <<>>) =>
                   ret.summary = [addedCount |-> 0, removedCount |-> 0, changedCount |-> 0,
                                  unchangedCount |-> 0, totalChangePercent |-> 0]
             /\ args.equipment1 = <<>> =>
                   ret.summary.totalChangePercent = 100 * Len(ret.added)
    /\ (pc = "returned" /\ op = "summary") =>
          ret.totalChangePercent = StatedPercent(args.changedItems, args.total)

\* the positions of a list whose record is followed by another record with
\* the same tag ignoring case, and the records at the other positions
Earlier(list) ==
    {i \in 1..Len(list) :
        \E j \in (i + 1)..Len(list) : toUpperCase(list[j].tag) = toUpperCase(list[i].tag)}

LastRecords(list) == {list[i] : i \in (1..Len(list)) \ Earlier(list)}

\* every record a result hands out
ResultRecords ==
    Range(ret.added) \cup Range(ret.removed) \cup Range(ret.unchanged)
    \cup {ret.changed[i].old : i \in 1..Len(ret.changed)}
    \cup {ret.changed[i].new : i \in 1..Len(ret.changed)}

\* C14: of several records of one list whose tags are equal after
\* uppercasing only the last one is used: the tag contributes exactly one
\* entry, built from the last record of each list, and the earlier records
\* appear in none of added, removed, changed, unchanged.
C14_LastWins ==
    (pc = "returned" /\ op = "compareTakeoffs") =>
        LET old == LastRecords(args.equipment1)
            new == LastRecords(args.equipment2)
        IN /\ Range(ret.added) \subseteq new
           /\ Range(ret.removed) \subseteq old
           /\ Range(ret.unchanged) \subseteq old
           /\ \A i \in 1..Len(ret.changed) :
                 ret.changed[i].old \in old /\ ret.changed[i].new \in new
           /\ \A tag \in UpperTags(args.equipment1) \cup UpperTags(args.equipment2) :
                 Cardinality({i \in 1..Len(ret.added) : toUpperCase(ret.added[i].tag) = tag})
                 + Cardinality({i \in 1..Len(ret.removed) : toUpperCase(ret.removed[i].tag) = tag})
                 + Cardinality({i \in 1..Len(ret.changed) : ret.changed[i].tag = tag})
                 + Cardinality({i \in 1..Len(ret.unchanged) : toUpperCase(ret.unchanged[i].tag) = tag})
                 = 1
           /\ \A i \in Earlier(args.equipment1) :
                 args.equipment1[i] \notin (old \cup new) => args.equipment1[i] \notin ResultRecords
           /\ \A i \in Earlier(args.equipment2) :
                 args.equipment2[i] \notin (old \cup new) => args.equipment2[i] \notin ResultRecords

\* both lists hold two different records under one tag, spelled differently,
\* and the tag is reported once, as changed between the two last records
C14_Witness ==
    /\ pc = "returned" /\ op = "compareTakeoffs"
    /\ Earlier(args.equipment1) = {1} /\ Earlier(args.equipment2) = {1}
    /\ args.equipment1[1] # args.equipment1[2]
    /\ args.equipment2[1] # args.equipment2[2]
    /\ args.equipment1[1].tag # args.equipment1[2].tag
    /\ Len(ret.changed) = 1
    /\ ret.changed[1].old = args.equipment1[2] /\ ret.changed[1].new = args.equipment2[2]
    /\ ret.added = <<>> /\ ret.removed = <<>> /\ ret.unchanged = <<>>

\* a string of the form 'NN NN NNNN'
WellFormed(n) ==
    /\ Len(n) = 10
    /\ DigitsAt(n, 1, 2) /\ CharAt(n, 3) = " "
    /\ DigitsAt(n, 4, 2) /\ CharAt(n, 6) = " "
    /\ DigitsAt(n, 7, 4)

\* the characters of s from position i up to position j - 1 are spaces or hyphens
Separated(s, i, j) == \A k \in i..(j - 1) : CharAt(s, k) \in {" ", "-"}

\* a reference holds groups of two, two and four digits, separated by any
\* mix of spaces and hyphens or by nothing
HasGroups(ref) ==
    \E i \in 1..Len(ref) : \E j \in (i + 2)..Len(ref) : \E k \in (j + 2)..Len(ref) :
        /\ DigitsAt(ref, i, 2) /\ Separated(ref, i + 2, j)
        /\ DigitsAt(ref, j, 2) /\ Separated(ref, j + 2, k)
        /\ DigitsAt(ref, k, 4)

\* C15: every section number has the form 'NN NN NNNN', whatever mix of
\* spaces and hyphens, or none at all, separates the digit groups in the
\* reference; a reference without three such digit groups yields no section
\* number.
C15_SectionNumber ==
    (pc = "returned" /\ op = "correlateEquipmentToSpecs" /\ ~ret.threw) =>
        /\ \A b \in Range(ret.value) : WellFormed(b.sectionNumber)
        /\ \A j \in 1..Len(args.specSections) :
              LET n == extractSectionNumber(args.specSections[j].reference)
              IN IF HasGroups(args.specSections[j].reference)
                 THEN n # Null /\ WellFormed(n.value)
                 ELSE n = Null

\* the sections without a section number
Unnumbered(specSections) ==
    {j \in 1..Len(specSections) : extractSectionNumber(specSections[j].reference) = Null}

\* some section holds a keyword of the record, and every section that does
\* has no section number
MatchesOnlyUnnumbered(eq, specSections) ==
    /\ ~NoKeywordMatch(eq, specSections)
    /\ \A j \in 1..Len(specSections) :
          ~NoKeywordMatch(eq, <<specSections[j]>>) => j \in Unnumbered(specSections)

\* C16: a section without a section number never creates a bucket, yet it is
\* scanned for keywords: a record with empty specReferences whose only
\* keyword match is in such a section gets no 'No matching spec section
\* found' gap and appears in no bucket.
C16_Unnumbered ==
    /\ (pc = "returned" /\ op = "correlateEquipmentToSpecs" /\ ~ret.threw) =>
          LET unnumbered == Unnumbered(args.specSections)
              numbers == {extractSectionNumber(args.specSections[j].reference).value :
                             j \in (1..Len(args.specSections)) \ unnumbered}
              placed == UNION {Range(b.equipment) : b \in Range(ret.value)}
          IN /\ \A b \in Range(ret.value) : b.sectionNumber \in numbers
             /\ \A i \in 1..Len(args.equipment) :
                   (args.equipment[i] \in placed) =>
                       ~MatchesOnlyUnnumbered(args.equipment[i], args.specSections)
    /\ (pc = "returned" /\ op = "findSpecGaps" /\ ~ret.threw) =>
          \A tag \in {args.equipment[i].tag : i \in 1..Len(args.equipment)} :
              Cardinality({i \in 1..Len(ret.value) :
                              /\ ret.value[i].issue = "No matching spec section found"
                              /\ ret.value[i].equipmentTag = tag})
              <= Cardinality({i \in 1..Len(args.equipment) :
                              /\ args.equipment[i].tag = tag
                              /\ Len(args.equipment[i].specs_references) = 0
                              /\ NoKeywordMatch(args.equipment[i], args.specSections)})

\* findSpecGaps of a record with empty specReferences and a low confidence
\* whose keyword is found in a section without a section number only: it gets
\* the two other gaps and no 'No matching spec section found' gap
C16_Witness ==
    /\ pc = "returned" /\ op = "findSpecGaps" /\ ~ret.threw
    /\ Len(args.equipment) = 1
    /\ Len(args.equipment[1].specs_references) = 0
    /\ MatchesOnlyUnnumbered(args.equipment[1], args.specSections)
    /\ Len(ret.value) = 2
    /\ \A i \in 1..Len(ret.value) : ret.value[i].issue # "No matching spec section found"

\* C17: a record gets a 'No sizing information extracted' gap of severity
\* high exactly when its sizes are empty and its confidence is below 0.7,
\* whatever its spec references and keyword matches; at exactly 0.7 it gets
\* none.
C17_NoSizing ==
    (pc = "returned" /\ op = "findSpecGaps" /\ ~ret.threw) =>
        /\ \A i \in 1..Len(ret.value) :
              ret.value[i].issue = "No sizing information extracted" => ret.value[i].severity = "high"
        /\ \A tag \in {args.equipment[i].tag : i \in 1..Len(args.equipment)} :
              Cardinality({i \in 1..Len(ret.value) :
                              /\ ret.value[i].issue = "No sizing information extracted"
                              /\ ret.value[i].equipmentTag = tag})
              = Cardinality({i \in 1..Len(args.equipment) :
                              /\ args.equipment[i].tag = tag
                              /\ args.equipment[i].sizes = <<>>
                              /\ Hundredths(args.equipment[i].confidence) < 70})

\* two records without sizes: one with spec references and a keyword match
\* at confidence 0.6, which gets the gap, and one at exactly 0.7 without
\* references or match, which gets none
C17_Witness ==
    /\ pc = "returned" /\ op = "findSpecGaps" /\ ~ret.threw
    /\ Len(args.equipment) = 2
    /\ args.equipment[1].sizes = <<>> /\ args.equipment[2].sizes = <<>>
    /\ args.equipment[1].confidence = D060 /\ args.equipment[2].confidence = D070
    /\ args.equipment[1].specs_references # <<>>
    /\ ~NoKeywordMatch(args.equipment[1], args.specSections)
    /\ args.equipment[2].specs_references = <<>>
    /\ NoKeywordMatch(args.equipment[2], args.specSections)
    /\ \E i \in 1..Len(ret.value) :
          /\ ret.value[i].issue = "No sizing information extracted"
          /\ ret.value[i].equipmentTag = args.equipment[1].tag
    /\ \A i \in 1..Len(ret.value) :
          ret.value[i].issue = "No sizing information extracted"
              => ret.value[i].equipmentTag # args.equipment[2].tag

\* the number of the three gap rules a record meets
RulesMet(eq, specSections) ==
    (IF eq.specs_references = <<>> /\ NoKeywordMatch(eq, specSections) THEN 1 ELSE 0)
    + (IF eq.sizes = <<>> /\ Hundredths(eq.confidence) < 70 THEN 1 ELSE 0)
    + (IF Hundredths(eq.confidence) < 50 THEN 1 ELSE 0)

GapsOf(tag, severity) ==
    {i \in 1..Len(ret.value) : ret.value[i].equipmentTag = tag /\ ret.value[i].severity = severity}

\* C18: the three gap rules are independent: in a list of records with
\* pairwise different tags the number of gaps carrying a record's tag is the
\* number of rules the record meets, from 0 to 3; a record with confidence
\* below 0.5, no sizes, no spec references and no keyword match gets exactly
\* three gaps, two of severity high and one of severity medium.
C18_Independent ==
    (/\ pc = "returned" /\ op = "findSpecGaps" /\ ~ret.threw
     /\ Cardinality({args.equipment[i].tag : i \in 1..Len(args.equipment)}) = Len(args.equipment)) =>
        \A i \in 1..Len(args.equipment) :
            LET eq == args.equipment[i]
                met == RulesMet(eq, args.specSections)
            IN /\ Cardinality(GapsOf(eq.tag, "high")) + Cardinality(GapsOf(eq.tag, "medium"))
                    + Cardinality(GapsOf(eq.tag, "low")) = met
               /\ (met = 3) =>
                     /\ Cardinality(GapsOf(eq.tag, "high")) = 2
                     /\ Cardinality(GapsOf(eq.tag, "medium")) = 1

\* two records with different tags, one meeting all three rules and getting
\* two high gaps and a medium one, the other meeting none and getting none
C18_Witness ==
    /\ pc = "returned" /\ op = "findSpecGaps" /\ ~ret.threw
    /\ Len(args.equipment) = 2 /\ args.equipment[1].tag # args.equipment[2].tag
    /\ RulesMet(args.equipment[1], args.specSections) = 3
    /\ RulesMet(args.equipment[2], args.specSections) = 0
    /\ Len(ret.value) = 3
    /\ Cardinality(GapsOf(args.equipment[1].tag, "high")) = 2
    /\ Cardinality(GapsOf(args.equipment[1].tag, "medium")) = 1

\* the result of the returned call had it been made on a service constructed
\* with other home manufacturers
OnService(names) ==
    findEquivalencies(args.equipment, args.targetManufacturers, Construct(names))

\* C19: the home manufacturers of the service do not affect scoring: the
\* same call on a service with other home manufacturers returns the same
\* matches in the same order, with the same scores, differences and
\* isEquivalent flags, the same bestMatch and totalMatches; only the summary
\* may differ.
C19_HomeIndependent ==
    (pc = "returned" /\ op = "findEquivalencies") =>
        \A names \in HomeLists :
            Construct(names) # myManufacturers =>
                LET other == OnService(names)
                IN /\ other.matches = ret.matches
                   /\ other.bestMatch = ret.bestMatch
                   /\ other.totalMatches = ret.totalMatches
                   /\ other.category = ret.category
                   /\ other.originalTag = ret.originalTag

\* a call on a service that is not the first one, with several matches,
\* whose summary differs from the summary the first service gives
C19_Witness ==
    /\ pc = "returned" /\ op = "findEquivalencies"
    /\ myManufacturers = Construct(<<"Trane", "JCI">>)
    /\ Len(ret.matches) >= 2
    /\ ret.summary # OnService(<<"Daikin", "IEC">>).summary
    /\ ret.matches = OnService(<<"Daikin", "IEC">>).matches

\* every alias of the alias table maps to the canonical category it is listed under
AliasesMapHome ==
    \A i \in 1..Len(CATEGORY_MAP) :
        \A alias \in Range(CATEGORY_MAP[i].values) : _mapCategory(alias) = CATEGORY_MAP[i].key

\* a manufacturer equals some entry of the allow-list, ignoring case
Allowed(manufacturer, list) ==
    \E k \in 1..Len(list) : toLowerCase(list[k]) = toLowerCase(manufacturer)

\* C20: every match is a catalog product whose category is the canonical
\* category the equipment's category maps to and, when a non-empty allow-list
\* is given, whose manufacturer equals an entry of it ignoring case; an absent
\* or empty allow-list excludes no manufacturer, and an allow-list removes
\* nothing but the products of other manufacturers. Every alias of the alias
\* table maps to its own canonical category.
C20_Candidates ==
    (pc = "returned" /\ op = "findEquivalencies") =>
        LET list == args.targetManufacturers.list
            all == findEquivalencies(args.equipment, Absent, myManufacturers).matches
            Listed(m) == Allowed(m.matchedEquipment.manufacturer, list)
        IN /\ AliasesMapHome
           /\ ret.category = _mapCategory(args.equipment.category)
           /\ \A m \in Range(ret.matches) :
                 /\ m.matchedEquipment \in Range(MANUFACTURER_DATABASE)
                 /\ m.matchedEquipment.category = ret.category
                 /\ list # <<>> => Listed(m)
           /\ list = <<>> => ret.matches = all
           /\ list # <<>> => ret.matches = SelectSeq(all, Listed)

\* equipment whose category is an alias written with a capital and a space,
\* with an allow-list in other case than the catalog that keeps some of the
\* matches and removes others
C20_Witness ==
    /\ pc = "returned" /\ op = "findEquivalencies"
    /\ args.equipment.category = "Rooftop Unit" /\ ret.category = "rtu"
    /\ args.targetManufacturers = Given(<<"daikin">>)
    /\ Len(ret.matches) >= 1
    /\ \A i \in 1..Len(ret.matches) : ret.matches[i].matchedEquipment.manufacturer = "Daikin"
    /\ Len(findEquivalencies(args.equipment, Absent, myManufacturers).matches) > Len(ret.matches)

\* a string holds no numeric magnitude: no digit
NoMagnitude(value) == \A k \in 1..Len(value) : ~IsDigit(CharAt(value, k))

\* the record without its i-th size
WithoutSize(equipment, i) ==
    [equipment EXCEPT !.sizes = SubSeq(@, 1, i - 1) \o SubSeq(@, i + 1, Len(@))]

\* C21: a size whose value holds no numeric magnitude is skipped when the
\* sizes are parsed: it adds no entry to the parsed map, is not counted as a
\* matched field, produces no difference and leaves the score as if the size
\* were absent.
C21_Skipped ==
    (pc = "returned" /\ op = "_calculateMatch") =>
        \A i \in 1..Len(args.equipment.sizes) :
            NoMagnitude(args.equipment.sizes[i].value) =>
                LET without == WithoutSize(args.equipment, i)
                    other == _calculateMatch(without, args.candidate, _parseSpecs(without))
                IN /\ args.specs = _parseSpecs(without)
                   /\ ret.matchScore = other.matchScore
                   /\ ret.differences = other.differences
                   /\ ret.isEquivalent = other.isEquivalent

\* a category that is no alias of the alias table and holds none of its keys
NoAlias(category) ==
    LET n == replaceFirst(toLowerCase(category), " ", "_")
    IN \A i \in 1..Len(CATEGORY_MAP) :
          n \notin Range(CATEGORY_MAP[i].values) /\ ~includes(n, CATEGORY_MAP[i].key)

\* C22: for a record whose category matches no entry of the table an engine
\* uses no error is raised and the result is empty: findEquivalencies returns
\* the category unchanged, no matches, bestMatch null and totalMatches 0;
\* correlateEquipmentToSpecs places the record in no bucket.
C22_UnknownCategory ==
    /\ (pc = "returned" /\ op = "findEquivalencies" /\ NoAlias(args.equipment.category)) =>
          /\ ret.category = args.equipment.category
          /\ ret.matches = <<>>
          /\ ret.bestMatch = Null
          /\ ret.totalMatches = 0
    /\ (pc = "returned" /\ op = "correlateEquipmentToSpecs") =>
          \A i \in 1..Len(args.equipment) :
              args.equipment[i].category \notin DOMAIN typeKeywords =>
                  /\ ~ret.threw
                  /\ \A b \in Range(ret.value) : args.equipment[i] \notin Range(b.equipment)

Distinct(seq) == \A i, j \in 1..Len(seq) : i # j => seq[i] # seq[j]

\* C30: no bucket returned by correlateEquipmentToSpecs lists the same
\* equipment record more than once, whatever the sections normalise to
\* (the input records being pairwise different).
C30_NoDuplicate ==
    (pc = "returned" /\ op = "correlateEquipmentToSpecs" /\ ~ret.threw
        /\ Distinct(args.equipment)) =>
        \A b \in Range(ret.value) : Distinct(b.equipment)

\* the rest of C30: sections with pairwise different numbers give buckets
\* without repetition
C30_DistinctNumbers ==
    (pc = "returned" /\ op = "correlateEquipmentToSpecs" /\ ~ret.threw
        /\ Distinct(args.equipment)
        /\ Distinct([k \in 1..Len(args.specSections) |->
                        extractSectionNumber(args.specSections[k].reference)])) =>
        \A b \in Range(ret.value) : Distinct(b.equipment)

Eligible(original, targetManufacturer) ==
    {p \in Range(MANUFACTURER_DATABASE) :
        /\ toLowerCase(p.manufacturer) = toLowerCase(targetManufacturer)
        /\ p.category = _mapCategory(original.category)
        /\ FGreater(_calculateMatch(original, p, _parseSpecs(original)).matchScore, D030)}

\* C24: generateComparison returns the 'no match' message exactly when no
\* catalog product of the manufacturer and canonical category scores above
\* 0.3; otherwise it renders a highest-scoring such product, with a price
\* comparison exactly when that product has a list price, whose estimated
\* original price is the base price of the category times the confidence.
C24_Comparison ==
    (pc = "returned" /\ op = "generateComparison") =>
        LET original == args.original
            eligible == Eligible(original, args.targetManufacturer)
            Score(p) == _calculateMatch(original, p, _parseSpecs(original)).matchScore
        IN IF eligible = {}
           THEN ret = [noMatch |-> <<args.targetManufacturer, original.tag>>]
           ELSE /\ "noMatch" \notin DOMAIN ret
                /\ \E p \in eligible :
                      /\ ret.matched = <<p.manufacturer, p.model>>
                      /\ ret.matchScore = Score(p)
                      /\ \A q \in eligible : ~FGreater(Score(q), Score(p))
                      /\ (ret.price # Null) <=> (p.listPrice # 0)
                      /\ ret.price # Null =>
                            /\ ~ret.price.estimated.nan
                            /\ ret.price.estimated.value * 100
                                 = basePrices[p.category] * Hundredths(original.confidence)
                            /\ ret.price.listPrice = p.listPrice

C24_Witness ==
    /\ pc = "returned"
    /\ op = "generateComparison"
    /\ "noMatch" \notin DOMAIN ret
    /\ ret.price # Null
    /\ Len(ret.rows) > 0
    /\ args.targetManufacturer = "daikin"

Locked == "Account locked. Try again in 15 minutes."

\* C25: once five wrong passwords in a row were given for the email of an
\* existing user, every further login for that email within 15 minutes of the
\* fifth is rejected with 'Account locked', also with the correct password.
C25_Lockout ==
    [][(pc = "idle" /\ op' = "login"
          /\ hist.wrong[args'.email] >= MAX_LOGIN_ATTEMPTS
          /\ now < hist.fifthAt[args'.email] + LOCKOUT_DURATION)
        => (ret'.status = 401 /\ ret'.body.error = Locked)]_vars

\* the rest of C25: a login that succeeds leaves no count for the email, and
\* a login for an email whose entry is locked is rejected
C25_Reset ==
    [][(pc = "idle" /\ op' = "login") =>
          /\ ret'.body.success => ~Has(loginAttempts', args'.email)
          /\ (Has(loginAttempts, args'.email)
                /\ now < loginAttempts[args'.email].lockedUntil)
             => ret'.body.error = Locked]_vars

\* the counts loginAttempts holds
C25_Counts == \A e \in DOMAIN loginAttempts : loginAttempts[e].attempts <= 1

\* C26: a registration whose email, lowercased, is the email of a stored user
\* is answered 400 'User already exists' and leaves the stored users as they
\* were.
C26_NoReplace ==
    [][(pc = "idle" /\ op' = "register" /\ Has(users, toLowerCase(args'.email)))
        => /\ ret'.status = 400
           /\ ret'.body.error = "User already exists"
           /\ users' = users]_vars

\* the rest of C26: the same holds when the email is given as it is stored,
\* and every user is stored under its own, lowercased, email
C26_SameSpelling ==
    [][(pc = "idle" /\ op' = "register" /\ Has(users, args'.email))
        => /\ ret'.status = 400
           /\ ret'.body.error = "User already exists"
           /\ users' = users]_vars

C26_Keys == \A k \in DOMAIN users : users[k].email = k /\ toLowerCase(k) = k

\* C27: a login with the email and password of the last registration that
\* succeeded for the account succeeds, unless the email is locked.
C27_RoundTrip ==
    [][(pc = "idle" /\ op' = "login"
          /\ Has(hist.registeredAs, toLowerCase(args'.email))
          /\ hist.registeredAs[toLowerCase(args'.email)]
               = [email |-> args'.email, password |-> args'.password]
          /\ ~isLocked(loginAttempts, args'.email, now).locked)
        => /\ ret'.status = 200
           /\ ret'.body.success
           /\ ret'.body.user.email = toLowerCase(args'.email)]_vars

\* the rest of C27: the round trip succeeds for emails without upper-case
\* letters
C27_LowerCase ==
    [][(pc = "idle" /\ op' = "login"
          /\ Has(hist.registeredAs, toLowerCase(args'.email))
          /\ hist.registeredAs[toLowerCase(args'.email)]
               = [email |-> args'.email, password |-> args'.password]
          /\ args'.email = toLowerCase(args'.email)
          /\ ~isLocked(loginAttempts, args'.email, now).locked)
        => /\ ret'.status = 200
           /\ ret'.body.success
           /\ ret'.body.user.email = args'.email]_vars

\* the project stored under id, for an id the store holds
Stored(store, id) == store[Position(store, id)]

ByIdOps == {"GET /projects/:id", "PUT /projects/:id", "DELETE /projects/:id"}

\* C28: GET /projects lists the projects of the requester and no other; a
\* GET, PUT or DELETE of a project by a user who does not own it is answered
\* 403 and leaves the store as it was; the store changes only by a creation,
\* by a PUT of the owner, which changes that project alone, or by a DELETE of
\* the owner, which removes that project alone.
C28_Isolation ==
    [][(pc = "idle" /\ pc' = "returned") =>
          /\ op' = "GET /projects" =>
                /\ projects' = projects
                /\ \A p \in Range(projects) :
                      p \in Range(ret'.body.data.projects) <=> p.userId = args'.userId
                /\ Range(ret'.body.data.projects) \subseteq Range(projects)
          /\ (op' \in ByIdOps /\ Position(projects, args'.id) # 0
                /\ Stored(projects, args'.id).userId # args'.userId) =>
                /\ ret'.status = 403
                /\ projects' = projects
          /\ (op' = "GET /projects/:id" /\ ret'.status = 200) =>
                ret'.body.data.userId = args'.userId
          /\ (op' # "POST /projects" /\ projects' # projects) =>
                /\ op' \in {"PUT /projects/:id", "DELETE /projects/:id"}
                /\ Position(projects, args'.id) # 0
                /\ Stored(projects, args'.id).userId = args'.userId
                /\ \A p \in Range(projects) : p.id # args'.id => p \in Range(projects')
                /\ \A p \in Range(projects') : p.id # args'.id => p \in Range(projects)
                /\ op' = "DELETE /projects/:id" => Position(projects', args'.id) = 0
                /\ op' = "PUT /projects/:id" =>
                      /\ Position(projects', args'.id) # 0
                      /\ Stored(projects', args'.id).userId = args'.userId]_vars

C28_Witness ==
    /\ pc = "returned"
    /\ op \in {"PUT /projects/:id", "DELETE /projects/:id"}
    /\ ret.status = 403
    /\ Len(projects) = 2
    /\ projects[1].userId # projects[2].userId

\* the content sent with an upload request, Null if none
Sent(request) ==
    IF request.file = Null THEN Null
    ELSE IF "data" \in DOMAIN request.file THEN request.file.data
    ELSE request.file.file

IsPdf(content) ==
    content # Null /\ content.length <= MAX_FILE_SIZE /\ content.head = "%PDF"

\* C29: an upload is stored and answered with success only if its content is
\* at most 50 MB and starts with '%PDF'; every other upload, also one shorter
\* than five bytes, is answered 400 and writes nothing.
C29_OnlyPdf ==
    [][(pc = "idle" /\ op' \in {"POST /upload", "POST /takeoff/upload"}) =>
          IF IsPdf(Sent(args'))
          THEN ret'.status \in {200, 400}
          ELSE ret'.status = 400 /\ uploads' = uploads]_vars

\* the rest of C29: contents of five bytes and more, and requests without
\* content, are treated as stated
C29_FiveBytes ==
    [][(pc = "idle" /\ op' \in {"POST /upload", "POST /takeoff/upload"}
          /\ (Sent(args') = Null \/ Sent(args').length >= 5)) =>
          IF IsPdf(Sent(args'))
          THEN ret'.status = 200 /\ uploads' # uploads
          ELSE ret'.status = 400 /\ uploads' = uploads]_vars

====
